---- MODULE Spec2Model ----
(***************************************************************************)
(* Model of the NISD API project (Google Apps Script): the batch email     *)
(* ingestion pipeline (EmailProcessor), the sheet-to-sheet push            *)
(* (DataPusher), the destination writer (SheetService), the retry helper   *)
(* (ErrorHandler) and the validators.                                      *)
(*                                                                         *)
(* JavaScript values are modelled by strings; the values that are not      *)
(* strings in the program are the reserved words below.  Error messages    *)
(* are sequences of string fragments, the literals of the source joined by *)
(* the program's concatenations.                                           *)
(***************************************************************************)
EXTENDS Integers, Sequences, FiniteSets, TLC

\* ------------------------------------------------------------------------
\* Bounds of the model
\* ------------------------------------------------------------------------
MaxAttempts == 3

MaxConfigs == 2

\* ------------------------------------------------------------------------
\* JavaScript values
\* ------------------------------------------------------------------------
UNDEFINED == "<undefined>"

NULL == "<null>"

NUMBER == "<number 7>"

NonStrings == {UNDEFINED, NULL, NUMBER}

IsString(v) == v \notin NonStrings

\* !v for the values of the model: undefined, null and '' are falsy
Falsy(v) == v \in {UNDEFINED, NULL, ""}

\* String.prototype.trim on the strings of the model
Trim(s) == IF s \in {"", " ", "  "} THEN "" ELSE s

\* number -> string as done by the + operator
NumStr(n) ==
  CASE n = 0 -> "0" [] n = 1 -> "1" [] n = 2 -> "2" [] n = 3 -> "3"
    [] n = 4 -> "4" [] n = 5 -> "5" [] n = 6 -> "6" [] n = 7 -> "7"
    [] n = 8 -> "8" [] OTHER -> "9"

\* ------------------------------------------------------------------------
\* Errors
\* ------------------------------------------------------------------------
ERROR_CODES ==
  [MISSING_PARAMETERS |-> "MISSING_PARAMETERS",
   SPREADSHEET_NOT_FOUND |-> "SPREADSHEET_NOT_FOUND",
   SHEET_NOT_FOUND |-> "SHEET_NOT_FOUND",
   EMAIL_NOT_FOUND |-> "EMAIL_NOT_FOUND",
   ATTACHMENT_NOT_FOUND |-> "ATTACHMENT_NOT_FOUND",
   LABEL_NOT_FOUND |-> "LABEL_NOT_FOUND",
   FILE_PROCESSING_ERROR |-> "FILE_PROCESSING_ERROR",
   GENERAL_ERROR |-> "GENERAL_ERROR"]

\* an Error object: its code property and its message
ErrorHandler_createError(message, code) == [code |-> code, message |-> message]

\* new Error(message): no code property
PlainError(message) == [code |-> UNDEFINED, message |-> message]

\* the TypeError of the runtime on a property read of undefined or null
TypeError == [code |-> UNDEFINED, message |-> <<"TypeError: Cannot read properties of undefined">>]

NoError == [code |-> UNDEFINED, message |-> <<>>]

\* the value of a variable that holds an Error and was never assigned
UnsetError == [code |-> "<unset>", message |-> <<>>]

\* ErrorHandler_handle returns '[' + timestamp + '] ' + context + ': ' + error.message
ErrorHandler_handle(error, context) == <<"[", "timestamp", "] ">> \o context \o <<": ">> \o error.message

\* ------------------------------------------------------------------------
\* ErrorHandler_withRetry
\* outcomes[k] is what the k-th call of operation() does: it returns value
\* (ok) or throws error.
\* ------------------------------------------------------------------------
OkOutcome(v) == [ok |-> TRUE, value |-> v, error |-> NoError]

FailOutcome(e) == [ok |-> FALSE, value |-> UNDEFINED, error |-> e]

\* The log of a call of withRetry: the calls of operation() and the calls of
\* Utilities.sleep, in order; ms is the expression passed to sleep.
CallEvent == [kind |-> "call", ms |-> "none"]

\* mutant: the delay grows with the attempts
Slept_Backoff(log, attempts) ==
  Append(log, [kind |-> "sleep", ms |-> IF attempts = 1 THEN "delay" ELSE "delay * attempts"])

\* Utilities.sleep(delay) after the failure of call number attempts
Slept(log, attempts) == Append(log, [kind |-> "sleep", ms |-> "delay"])

Sleeps(log) == Len(SelectSeq(log, LAMBDA e : e.kind = "sleep"))

\* the statements after the loop: the composite error, built from lastError.message
RetryExhausted(attempts, lastError, log, maxRetries, context) ==
  IF lastError = UnsetError
  THEN [ok |-> FALSE, value |-> UNDEFINED, error |-> TypeError,
        calls |-> attempts, sleeps |-> Sleeps(log), log |-> log]
  ELSE [ok |-> FALSE, value |-> UNDEFINED,
        error |-> PlainError(context \o <<" failed after ", NumStr(maxRetries),
                                          " attempts. Last error: ">> \o lastError.message),
        calls |-> attempts, sleeps |-> Sleeps(log), log |-> log]

RECURSIVE RetryLoop(_, _, _, _, _, _)
RetryLoop(outcomes, maxRetries, context, attempts, lastError, log) ==
  IF attempts < maxRetries
  THEN LET a == attempts + 1
           o == outcomes[a]
       IN IF o.ok
          THEN [ok |-> TRUE, value |-> o.value, error |-> NoError,
                calls |-> a, sleeps |-> Sleeps(log), log |-> Append(log, CallEvent)]
          ELSE IF a >= maxRetries
               THEN RetryExhausted(a, o.error, Append(log, CallEvent), maxRetries, context)
               ELSE RetryLoop(outcomes, maxRetries, context, a, o.error,
                              Slept(Append(log, CallEvent), a))
  ELSE RetryExhausted(attempts, lastError, log, maxRetries, context)

\* mutant: the loop stops one attempt early (attempts < maxRetries - 1)
RECURSIVE RetryLoop_OneShort(_, _, _, _, _, _)
RetryLoop_OneShort(outcomes, maxRetries, context, attempts, lastError, log) ==
  IF attempts < maxRetries - 1
  THEN LET a == attempts + 1
           o == outcomes[a]
       IN IF o.ok
          THEN [ok |-> TRUE, value |-> o.value, error |-> NoError,
                calls |-> a, sleeps |-> Sleeps(log), log |-> Append(log, CallEvent)]
          ELSE IF a >= maxRetries - 1
               THEN RetryExhausted(a, o.error, Append(log, CallEvent), maxRetries, context)
               ELSE RetryLoop_OneShort(outcomes, maxRetries, context, a, o.error,
                                       Slept(Append(log, CallEvent), a))
  ELSE RetryExhausted(attempts, lastError, log, maxRetries, context)

ErrorHandler_withRetry_OneShort(outcomes, maxRetries, context) ==
  RetryLoop_OneShort(outcomes, maxRetries, context, 0, UnsetError, <<>>)

\* mutant: the operation is called once and not retried
ErrorHandler_withRetry_Once(outcomes, maxRetries, context) ==
  RetryLoop(outcomes, 1, context, 0, UnsetError, <<>>)

ErrorHandler_withRetry(outcomes, maxRetries, context) ==
  RetryLoop(outcomes, maxRetries, context, 0, UnsetError, <<>>)

\* ------------------------------------------------------------------------
\* Validators
\* A validator returns NoError when it returns normally and the Error it
\* throws otherwise.  A context is the sequence of fragments of the context
\* string.
\* ------------------------------------------------------------------------
\* the first exception thrown by a sequence of statements
RECURSIVE FirstError(_)
FirstError(errs) ==
  IF errs = <<>> THEN NoError
  ELSE IF Head(errs) # NoError THEN Head(errs) ELSE FirstError(Tail(errs))

\* !v || typeof v !== 'string' || v.trim().length === 0
BlankOrNotString(v) == Falsy(v) \/ ~IsString(v) \/ Trim(v) = ""

Validators_validateSpreadsheetId(id, context) ==
  IF BlankOrNotString(id)
  THEN ErrorHandler_createError(context \o <<": Invalid spreadsheet ID provided">>,
                                ERROR_CODES.MISSING_PARAMETERS)
  ELSE NoError

Validators_validateSheetName(name, context) ==
  IF BlankOrNotString(name)
  THEN ErrorHandler_createError(context \o <<": Invalid sheet name provided">>,
                                ERROR_CODES.MISSING_PARAMETERS)
  ELSE NoError

Validators_validateGmailLabel(label, context) ==
  IF BlankOrNotString(label)
  THEN ErrorHandler_createError(context \o <<": Invalid Gmail label provided">>,
                                ERROR_CODES.MISSING_PARAMETERS)
  ELSE NoError

\* the strings of the model that match /^[A-Z]+\d*:[A-Z]+\d*$/
RangePatternMatches == {"A2:B", "A2:A", "B2:B", "A1:B", "A2:B2"}

\* mutant: a range that does not match the pattern is rejected
Validators_validateRange_Strict(range, context) ==
  IF BlankOrNotString(range) \/ range \notin RangePatternMatches
  THEN ErrorHandler_createError(context \o <<": Invalid range provided">>,
                                ERROR_CODES.MISSING_PARAMETERS)
  ELSE NoError

\* a mismatch of the pattern only logs a warning
Validators_validateRange(range, context) ==
  IF BlankOrNotString(range)
  THEN ErrorHandler_createError(context \o <<": Invalid range provided">>,
                                ERROR_CODES.MISSING_PARAMETERS)
  ELSE NoError

\* the keys among required whose value is undefined, null or ''
MissingRequired(params, required) ==
  SelectSeq(required, LAMBDA p : params[p] \in {UNDEFINED, NULL, ""})

\* missing.join(', ')
RECURSIVE Join(_)
Join(names) ==
  IF names = <<>> THEN <<>>
  ELSE IF Len(names) = 1 THEN names
  ELSE <<Head(names), ", ">> \o Join(Tail(names))

ErrorHandler_validateRequired(params, required, context) ==
  IF MissingRequired(params, required) # <<>>
  THEN ErrorHandler_createError(context \o <<": Missing required parameters: ">>
                                  \o Join(MissingRequired(params, required)),
                                ERROR_CODES.MISSING_PARAMETERS)
  ELSE NoError

Validators_validateEmailConfig(config, context) ==
  FirstError(<<ErrorHandler_validateRequired(config, <<"label", "sheetName", "rangeToClear">>, context),
               Validators_validateSheetName(config.sheetName, context \o <<".sheetName">>),
               Validators_validateRange(config.rangeToClear, context \o <<".rangeToClear">>),
               Validators_validateGmailLabel(config.label, context \o <<".label">>)>>)

\* The argument of validateDataArray: isArray tells whether it is an array;
\* rows gives, for each element of the array, its kind ("array", "string"
\* or "null") and its length.
\* the value passed by the callers of the model: an array of arrays
ArrayOfArrays(data) ==
  [isArray |-> TRUE,
   rows |-> [i \in 1..Len(data) |-> [kind |-> "array", length |-> Len(data[i])]]]

\* mutant: an empty data array is rejected
Validators_validateDataArray_NoEmpty(data, context) ==
  IF Len(data.rows) = 0
  THEN ErrorHandler_createError(context \o <<": Data must be an array">>,
                                ERROR_CODES.MISSING_PARAMETERS)
  ELSE NoError

\* mutant: rows of different lengths are rejected
Validators_validateDataArray_Strict(data, context) ==
  IF \E i \in 1..Len(data.rows) : data.rows[i].length # data.rows[1].length
  THEN ErrorHandler_createError(context \o <<": Inconsistent row lengths detected">>,
                                ERROR_CODES.MISSING_PARAMETERS)
  ELSE NoError

\* Validators_validateDataArray: an empty array and rows of different
\* lengths only log a warning; data[0].length is read before the rows are
\* looked at, and the filter throws at the first row that is not an array
Validators_validateDataArray(data, context) ==
  IF ~data.isArray
  THEN ErrorHandler_createError(context \o <<": Data must be an array">>,
                                ERROR_CODES.MISSING_PARAMETERS)
  ELSE IF Len(data.rows) = 0 THEN NoError
  ELSE IF data.rows[1].kind = "null" THEN TypeError
  ELSE IF \E i \in 1..Len(data.rows) : data.rows[i].kind # "array"
  THEN ErrorHandler_createError(
         context \o <<": Row ",
                      NumStr((CHOOSE i \in 1..Len(data.rows) :
                                /\ data.rows[i].kind # "array"
                                /\ \A j \in 1..(i - 1) : data.rows[j].kind = "array") - 1),
                      " is not an array">>,
         ERROR_CODES.MISSING_PARAMETERS)
  ELSE NoError

MAIN == "MAIN"

\* ------------------------------------------------------------------------
\* Spreadsheets
\* A sheet is a grid of GridRows x MaxCols cells (row 1 is the header row)
\* and the note of cell A1.  The world of spreadsheets is a function from
\* <<spreadsheetId, sheetName>> to the sheet.
\* ------------------------------------------------------------------------
MaxDataRows == 2

MaxCols == 2

GridRows == MaxDataRows + 1

Cells == (1..GridRows) \X (1..MaxCols)

NoRect == [r1 |-> 0, c1 |-> 0, r2 |-> 0, c2 |-> 0]

\* sheet.getRange(a1Notation): the rectangle of the grid that the notation
\* names (an open-ended range reaches the last row of the sheet, the
\* notation is not case sensitive), NoRect when the call throws
A1Rect(range) ==
  CASE range \in {"A2:B", "a2:b"} -> [r1 |-> 2, c1 |-> 1, r2 |-> GridRows, c2 |-> 2]
    [] range = "A2:A" -> [r1 |-> 2, c1 |-> 1, r2 |-> GridRows, c2 |-> 1]
    [] range = "B2:B" -> [r1 |-> 2, c1 |-> 2, r2 |-> GridRows, c2 |-> 2]
    [] range = "A1:B" -> [r1 |-> 1, c1 |-> 1, r2 |-> GridRows, c2 |-> 2]
    [] range = "A2:B2" -> [r1 |-> 2, c1 |-> 1, r2 |-> 2, c2 |-> 2]
    [] OTHER -> NoRect

InRect(rc, rect) ==
  /\ rect.r1 <= rc[1] /\ rc[1] <= rect.r2
  /\ rect.c1 <= rc[2] /\ rc[2] <= rect.c2

\* sheet.getRange(row, column, numRows, numColumns)
BlockRect(row, column, numRows, numColumns) ==
  [r1 |-> row, c1 |-> column, r2 |-> row + numRows - 1, c2 |-> column + numColumns - 1]

\* range.clearContent(): the cells of the range become empty, notes stay
ClearContent(sheet, rect) ==
  [sheet EXCEPT !.cells = [rc \in Cells |-> IF InRect(rc, rect) THEN "" ELSE sheet.cells[rc]]]

\* range.setValues(data) on a range whose dimensions match data
SetValues(sheet, rect, data) ==
  [sheet EXCEPT !.cells = [rc \in Cells |->
      IF InRect(rc, rect) THEN data[rc[1] - rect.r1 + 1][rc[2] - rect.c1 + 1]
      ELSE sheet.cells[rc]]]

\* range.getValues()
GetValues(sheet, rect) ==
  [r \in 1..(rect.r2 - rect.r1 + 1) |->
     [c \in 1..(rect.c2 - rect.c1 + 1) |-> sheet.cells[<<rect.r1 + r - 1, rect.c1 + c - 1>>]]]

\* sheet.getLastRow(): the last row that has content, 0 on an empty sheet
GetLastRow(sheet) ==
  LET used == {rc[1] : rc \in {x \in Cells : sheet.cells[x] # ""}}
  IN IF used = {} THEN 0 ELSE CHOOSE r \in used : \A q \in used : q <= r

\* the spreadsheets that SpreadsheetApp.openById can open
Spreadsheets(world) == {key[1] : key \in DOMAIN world}

\* DateUtils_createTimestampNote('Updated'): action + ' on: ' + formattedDate
TimestampNote == "Updated on: <date>"

\* DateUtils_createScriptTimestampNote(): formattedDate + ' by script'
ScriptTimestampNote == "<date> by script"

\* mutant: every row below the header is cleared, whatever the range
SheetService__clearRange_WholeBody(sheet, rangeToClear, context, fault) ==
  IF A1Rect(rangeToClear) = NoRect \/ fault = "clear"
  THEN [error |-> ErrorHandler_createError(context \o <<": Failed to clear range ", rangeToClear>>,
                                           ERROR_CODES.GENERAL_ERROR),
        sheet |-> sheet]
  ELSE [error |-> NoError,
        sheet |-> ClearContent(sheet, BlockRect(2, 1, GridRows - 1, MaxCols))]

\* mutant: the range is not cleared
SheetService__clearRange_Skip(sheet, rangeToClear, context, fault) ==
  IF A1Rect(rangeToClear) = NoRect \/ fault = "clear"
  THEN [error |-> ErrorHandler_createError(context \o <<": Failed to clear range ", rangeToClear>>,
                                           ERROR_CODES.GENERAL_ERROR),
        sheet |-> sheet]
  ELSE [error |-> NoError, sheet |-> sheet]

\* SheetService__clearRange: [error, sheet]; fault is the failure of the
\* spreadsheet service during the call ("clear") or "none"
SheetService__clearRange(sheet, rangeToClear, context, fault) ==
  IF A1Rect(rangeToClear) = NoRect \/ fault = "clear"
  THEN [error |-> ErrorHandler_createError(context \o <<": Failed to clear range ", rangeToClear>>,
                                           ERROR_CODES.GENERAL_ERROR),
        sheet |-> sheet]
  ELSE [error |-> NoError, sheet |-> ClearContent(sheet, A1Rect(rangeToClear))]

\* getRange throws on a range of zero columns, setValues throws when a row
\* of data has not the width of the range
InsertRejected(data) ==
  \/ Len(data[1]) = 0
  \/ \E i \in 1..Len(data) : Len(data[i]) # Len(data[1])

\* mutant: the failure of the write is swallowed
InsertFailed_Swallowed(sheet, context) == [error |-> NoError, sheet |-> sheet, rows |-> 0]

\* the catch of SheetService__insertData
InsertFailed(sheet, context) ==
  [error |-> ErrorHandler_createError(context \o <<": Failed to insert data into sheet">>,
                                      ERROR_CODES.GENERAL_ERROR),
   sheet |-> sheet, rows |-> 0]

\* mutant: the data is appended below the last row that has content
SheetService__insertData_Append(sheet, data, context, fault) ==
  IF Len(data) = 0 THEN [error |-> NoError, sheet |-> sheet, rows |-> 0]
  ELSE IF InsertRejected(data) \/ fault = "insert" THEN InsertFailed(sheet, context)
  ELSE IF GetLastRow(sheet) + Len(data) > GridRows THEN InsertFailed(sheet, context)
  ELSE [error |-> NoError,
        sheet |-> SetValues(sheet, BlockRect(GetLastRow(sheet) + 1, 1, Len(data), Len(data[1])), data),
        rows |-> Len(data)]

\* mutant: the data is written from row 1
SheetService__insertData_Header(sheet, data, context, fault) ==
  IF Len(data) = 0 THEN [error |-> NoError, sheet |-> sheet, rows |-> 0]
  ELSE IF InsertRejected(data) \/ fault = "insert" THEN InsertFailed(sheet, context)
  ELSE [error |-> NoError,
        sheet |-> SetValues(sheet, BlockRect(1, 1, Len(data), Len(data[1])), data),
        rows |-> Len(data)]

\* SheetService__insertData: [error, sheet, rows]
SheetService__insertData(sheet, data, context, fault) ==
  IF Len(data) = 0 THEN [error |-> NoError, sheet |-> sheet, rows |-> 0]
  ELSE IF InsertRejected(data) \/ fault = "insert" THEN InsertFailed(sheet, context)
  ELSE [error |-> NoError,
        sheet |-> SetValues(sheet, BlockRect(2, 1, Len(data), Len(data[1])), data),
        rows |-> Len(data)]

\* SheetService__addTimestampNote: a failure is logged and swallowed
SheetService__addTimestampNote(sheet, fault) ==
  IF fault = "note" THEN sheet ELSE [sheet EXCEPT !.note = TimestampNote]

UpdateFailed(world, error, effects, attempts) ==
  [ok |-> FALSE, error |-> error, rowsInserted |-> 0, columnsInserted |-> 0, world |-> world,
   effects |-> effects, attempts |-> attempts]

\* SheetService_updateSheet: [ok, error, rowsInserted, columnsInserted, world,
\* effects, attempts]; effects are the operations performed on the sheet, in
\* order; attempts are the calls of the spreadsheet service that were
\* started, in order
SheetService_updateSheet(world, spreadsheetId, sheetName, rangeToClear, data, context, fault) ==
  LET invalid == FirstError(<<
          Validators_validateSpreadsheetId(spreadsheetId, context \o <<".spreadsheetId">>),
          Validators_validateSheetName(sheetName, context \o <<".sheetName">>),
          Validators_validateRange(rangeToClear, context \o <<".rangeToClear">>),
          Validators_validateDataArray(ArrayOfArrays(data), context \o <<".data">>)>>)
      key == <<spreadsheetId, sheetName>>
  IN
  IF invalid # NoError THEN UpdateFailed(world, invalid, <<>>, <<>>)
  ELSE IF spreadsheetId \notin Spreadsheets(world) \/ fault = "open"
  THEN UpdateFailed(world, ErrorHandler_createError(context \o <<": Failed to open spreadsheet">>,
                                                    ERROR_CODES.SPREADSHEET_NOT_FOUND), <<>>, <<"open">>)
  ELSE IF key \notin DOMAIN world
  THEN UpdateFailed(world, ErrorHandler_createError(context \o <<": Sheet \"", sheetName, "\" not found">>,
                                                    ERROR_CODES.SHEET_NOT_FOUND), <<>>, <<"open">>)
  ELSE
    LET cleared == SheetService__clearRange(world[key], rangeToClear, context, fault)
        inserted == SheetService__insertData(cleared.sheet, data, context, fault)
    IN
    IF cleared.error # NoError THEN UpdateFailed(world, cleared.error, <<>>, <<"open", "clear">>)
    ELSE IF inserted.error # NoError
    THEN UpdateFailed([world EXCEPT ![key] = inserted.sheet], inserted.error, <<"clear">>,
                      <<"open", "clear", "write">>)
    ELSE [ok |-> TRUE, error |-> NoError,
          rowsInserted |-> inserted.rows,
          columnsInserted |-> IF Len(data) > 0 THEN Len(data[1]) ELSE 0,
          world |-> [world EXCEPT ![key] = SheetService__addTimestampNote(inserted.sheet, fault)],
          effects |-> <<"clear">> \o (IF Len(data) > 0 THEN <<"write">> ELSE <<>>)
                        \o (IF fault = "note" THEN <<>> ELSE <<"note">>),
          attempts |-> <<"open", "clear">> \o (IF Len(data) > 0 THEN <<"write">> ELSE <<>>)
                         \o <<"note">>]

\* row.some(cell => cell !== null && cell !== undefined && cell !== '')
NonEmptyRow(row) == \E c \in 1..Len(row) : row[c] \notin {NULL, UNDEFINED, ""}

ReadFailed(error) == [ok |-> FALSE, error |-> error, data |-> <<>>]

\* mutant: the empty rows are kept
SheetService_readSheetData_KeepEmpty(world, spreadsheetId, sheetName, range, context) ==
  LET key == <<spreadsheetId, sheetName>>
  IN IF key \notin DOMAIN world \/ A1Rect(range) = NoRect \/ BlankOrNotString(range)
     THEN ReadFailed(PlainError(<<"Range not found">>))
     ELSE [ok |-> TRUE, error |-> NoError, data |-> GetValues(world[key], A1Rect(range))]

\* SheetService_readSheetData: [ok, error, data]
SheetService_readSheetData(world, spreadsheetId, sheetName, range, context) ==
  LET invalid == FirstError(<<
          Validators_validateSpreadsheetId(spreadsheetId, context \o <<".spreadsheetId">>),
          Validators_validateSheetName(sheetName, context \o <<".sheetName">>),
          Validators_validateRange(range, context \o <<".range">>)>>)
      key == <<spreadsheetId, sheetName>>
  IN
  IF invalid # NoError THEN ReadFailed(invalid)
  ELSE IF spreadsheetId \notin Spreadsheets(world)
  THEN ReadFailed(ErrorHandler_createError(context \o <<": Failed to open spreadsheet">>,
                                           ERROR_CODES.SPREADSHEET_NOT_FOUND))
  ELSE IF key \notin DOMAIN world
  THEN ReadFailed(ErrorHandler_createError(context \o <<": Sheet \"", sheetName, "\" not found">>,
                                           ERROR_CODES.SHEET_NOT_FOUND))
  ELSE IF A1Rect(range) = NoRect
  THEN ReadFailed(PlainError(<<"Range not found">>))
  ELSE [ok |-> TRUE, error |-> NoError,
        data |-> SelectSeq(GetValues(world[key], A1Rect(range)), NonEmptyRow)]

\* ------------------------------------------------------------------------
\* Mail store
\* The mailbox maps each existing label to its threads, the most recent
\* first; a thread is the sequence of its messages, a message has a subject
\* and attachments, an attachment has a content type and, for a
\* spreadsheet, the rows it converts to.
\* ------------------------------------------------------------------------
MIME_EXCEL == "application/vnd.openxmlformats-officedocument.spreadsheetml.sheet"

NoMessage == [subject |-> UNDEFINED, attachments |-> <<>>]

NoAttachment == [name |-> UNDEFINED, contentType |-> UNDEFINED, rows |-> <<>>]

\* EmailService_labelExists: false also when the label does not pass validateGmailLabel
EmailService_labelExists(mailbox, labelName) ==
  /\ Validators_validateGmailLabel(labelName, <<"labelExists">>) = NoError
  /\ labelName \in DOMAIN mailbox

\* mutant: the first message of the most recent thread is returned
EmailService_getLatestEmailByLabel_First(mailbox, labelName) ==
  IF Validators_validateGmailLabel(labelName, <<"getLatestEmailByLabel">>) # NoError
  THEN [error |-> Validators_validateGmailLabel(labelName, <<"getLatestEmailByLabel">>),
        message |-> NoMessage]
  ELSE IF labelName \notin DOMAIN mailbox
  THEN [error |-> ErrorHandler_createError(<<"Label \"", labelName, "\" does not exist">>,
                                           ERROR_CODES.LABEL_NOT_FOUND),
        message |-> NoMessage]
  ELSE IF mailbox[labelName] = <<>>
  THEN [error |-> ErrorHandler_createError(<<"No emails found under label \"", labelName, "\"">>,
                                           ERROR_CODES.EMAIL_NOT_FOUND),
        message |-> NoMessage]
  ELSE [error |-> NoError, message |-> mailbox[labelName][1][1]]

\* EmailService_getLatestEmailByLabel: [error, message]
EmailService_getLatestEmailByLabel(mailbox, labelName) ==
  IF Validators_validateGmailLabel(labelName, <<"getLatestEmailByLabel">>) # NoError
  THEN [error |-> Validators_validateGmailLabel(labelName, <<"getLatestEmailByLabel">>),
        message |-> NoMessage]
  ELSE IF labelName \notin DOMAIN mailbox
  THEN [error |-> ErrorHandler_createError(<<"Label \"", labelName, "\" does not exist">>,
                                           ERROR_CODES.LABEL_NOT_FOUND),
        message |-> NoMessage]
  ELSE IF mailbox[labelName] = <<>>
  THEN [error |-> ErrorHandler_createError(<<"No emails found under label \"", labelName, "\"">>,
                                           ERROR_CODES.EMAIL_NOT_FOUND),
        message |-> NoMessage]
  ELSE LET messages == mailbox[labelName][1]
       IN [error |-> NoError, message |-> messages[Len(messages)]]

\* EmailService_getEmailCountByLabel: the messages of all threads of the label
RECURSIVE CountMessages(_)
CountMessages(threads) ==
  IF threads = <<>> THEN 0 ELSE Len(Head(threads)) + CountMessages(Tail(threads))

EmailService_getEmailCountByLabel(mailbox, labelName) ==
  IF Validators_validateGmailLabel(labelName, <<"getEmailCountByLabel">>) # NoError THEN 0
  ELSE IF labelName \notin DOMAIN mailbox THEN 0
  ELSE CountMessages(mailbox[labelName])

\* EmailService_getExcelAttachment: [error, attachment]; the first
\* attachment whose content type is MIME_TYPES.EXCEL
EmailService_getExcelAttachment(message) ==
  LET excel == SelectSeq(message.attachments, LAMBDA a : a.contentType = MIME_EXCEL)
  IN IF message.attachments = <<>>
     THEN [error |-> ErrorHandler_createError(<<"No attachments found in the email">>,
                                              ERROR_CODES.ATTACHMENT_NOT_FOUND),
           attachment |-> NoAttachment]
     ELSE IF excel = <<>>
     THEN [error |-> ErrorHandler_createError(<<"No Excel attachment found in the email">>,
                                              ERROR_CODES.ATTACHMENT_NOT_FOUND),
           attachment |-> NoAttachment]
     ELSE [error |-> NoError, attachment |-> excel[1]]

\* ------------------------------------------------------------------------
\* Drive: DriveService_processExcelData
\* ------------------------------------------------------------------------
MaxRetries == 2

FileCleanupDelay == 2000

\* the cell of row r and column c of the rows of a sheet; '' where the
\* sheet holds nothing
CellAt(rows, r, c) == IF r <= Len(rows) /\ c <= Len(rows[r]) THEN rows[r][c] ELSE ""

\* the last row of a sheet that holds a value, 1 for an empty sheet
LastUsedRow(rows) ==
  IF \A r \in 1..Len(rows) : \A c \in 1..Len(rows[r]) : rows[r][c] = "" THEN 1
  ELSE CHOOSE r \in 1..Len(rows) :
         /\ \E c \in 1..Len(rows[r]) : rows[r][c] # ""
         /\ \A q \in (r + 1)..Len(rows) : \A c \in 1..Len(rows[q]) : rows[q][c] = ""

\* the last column of a sheet that holds a value, 1 for an empty sheet
LastUsedColumn(rows) ==
  IF \A r \in 1..Len(rows) : \A c \in 1..Len(rows[r]) : rows[r][c] = "" THEN 1
  ELSE CHOOSE c \in 1..Len(rows[1]) :
         /\ \E r \in 1..Len(rows) : CellAt(rows, r, c) # ""
         /\ \A r \in 1..Len(rows) : \A d \in (c + 1)..Len(rows[r]) : rows[r][d] = ""

\* sheet.getDataRange().getValues(): the cells from A1 to the last row and
\* the last column that hold a value; one empty cell for an empty sheet
GetDataRangeValues(rows) ==
  [r \in 1..LastUsedRow(rows) |-> [c \in 1..LastUsedColumn(rows) |-> CellAt(rows, r, c)]]

\* mutant: the header row is returned with the data
DriveService__extractDataFromSheet_KeepHeader(workbook) == GetDataRangeValues(workbook[1])

\* DriveService__extractDataFromSheet on a spreadsheet that opens; workbook
\* is spreadsheet.getSheets(), a sheet is the sequence of its rows:
\* data.length > 1 ? data.slice(1) : []
DriveService__extractDataFromSheet(workbook) ==
  LET data == GetDataRangeValues(workbook[1])
  IN IF Len(data) > 1 THEN Tail(data) ELSE <<>>

ExtractError ==
  ErrorHandler_createError(<<"Converted spreadsheet not found or not accessible">>,
                           ERROR_CODES.SPREADSHEET_NOT_FOUND)

\* what the calls of the Drive and spreadsheet services do during one
\* processExcelData.  create: "ok", "fail" (DriveApp.createFile throws) or
\* "orphan" (createFile returns and file.setDescription throws: the file
\* exists and _createTempFile throws); convert: "ok", "fail"
\* (Drive.Files.create throws) or "orphan" (Drive.Files.create returns and
\* file.getBlob() in the statement after it throws); the first failedReads
\* reads of the converted spreadsheet throw; the removal of the temp file
\* and of the converted file succeed or throw
DriveFaults ==
  [create : {"ok", "fail", "orphan"}, convert : {"ok", "fail", "orphan"},
   failedReads : 0..MaxRetries, trashTemp : BOOLEAN, removeConverted : BOOLEAN]

\* the faults that differ only in calls that are not reached are one fault
ReachedDriveFaults ==
  {f \in DriveFaults :
     /\ f.create # "ok"
          => (f.convert = "ok" /\ f.failedReads = 0 /\ f.trashTemp /\ f.removeConverted)
     /\ (f.create = "ok" /\ f.convert # "ok") => (f.failedReads = 0 /\ f.removeConverted)}

\* what each read of the spreadsheet converted from the rows of the
\* attachment does
ExtractOutcomes(rows, f) ==
  [k \in 1..MaxRetries |->
     IF k > f.failedReads THEN OkOutcome(DriveService__extractDataFromSheet(<<rows>>))
     ELSE FailOutcome(ExtractError)]

\* DriveService__cleanupTempFiles([tempFile, convertedFile]): the events of
\* the cleanup and the number of files it removed; a failed removal is logged
DriveService__cleanupTempFiles(hasTemp, hasConverted, f) ==
  [events |-> (IF FileCleanupDelay > 0 THEN <<"cleanupDelay">> ELSE <<>>)
                \o (IF hasTemp THEN <<"trashTemp">> ELSE <<>>)
                \o (IF hasConverted THEN <<"removeConverted">> ELSE <<>>),
   removed |-> (IF hasTemp /\ f.trashTemp THEN 1 ELSE 0)
                 + (IF hasConverted /\ f.removeConverted THEN 1 ELSE 0)]

RECURSIVE Repeat(_, _)
Repeat(xs, n) == IF n <= 0 THEN <<>> ELSE xs \o Repeat(xs, n - 1)

\* the events of a withRetry call: a sleep between two calls of the operation
RetryEvents(r) ==
  IF r.calls = 0 THEN <<>>
  ELSE <<"read">> \o Repeat(<<"retrySleep", "read">>, r.calls - 1)

\* mutant: a conversion that fails is called again, maxRetries times in all
ConvertCalls_Retried(f) == IF f.convert = "ok" THEN 1 ELSE MaxRetries

\* the calls of DriveService__convertToGoogleSheets in processExcelData once
\* the temp file is created: one call, outside ErrorHandler_withRetry
ConvertCalls(f) == 1

\* DriveService_processExcelData: [ok, error, data, events, artifacts,
\* created, removed]; artifacts are the files that exist in Drive because
\* of the call, created is their number, removed the number of files that
\* the cleanup removed
DriveService_processExcelData(attachment, f) ==
  LET retry == ErrorHandler_withRetry(ExtractOutcomes(attachment.rows, f), MaxRetries,
                                      <<"Extract data from converted sheet">>)
      tempFile == f.create = "ok"
      convertedFile == tempFile /\ f.convert = "ok"
      cleanup == DriveService__cleanupTempFiles(tempFile, convertedFile, f)
      artifacts == (IF f.create # "fail" THEN {"temp"} ELSE {})
                     \cup (IF tempFile /\ f.convert # "fail" THEN {"converted"} ELSE {})
  IN
  IF ~tempFile
  THEN [ok |-> FALSE,
        error |-> ErrorHandler_createError(<<"Failed to create temporary file in Google Drive">>,
                                           ERROR_CODES.FILE_PROCESSING_ERROR),
        data |-> <<>>, events |-> <<"createFile">> \o cleanup.events,
        artifacts |-> artifacts, created |-> Cardinality(artifacts), removed |-> cleanup.removed]
  ELSE IF ~convertedFile
  THEN [ok |-> FALSE,
        error |-> ErrorHandler_createError(<<"Failed to convert file to Google Sheets format">>,
                                           ERROR_CODES.FILE_PROCESSING_ERROR),
        data |-> <<>>,
        events |-> <<"createFile">> \o Repeat(<<"convert">>, ConvertCalls(f)) \o cleanup.events,
        artifacts |-> artifacts, created |-> Cardinality(artifacts), removed |-> cleanup.removed]
  ELSE [ok |-> retry.ok, error |-> retry.error,
        data |-> IF retry.ok THEN retry.value ELSE <<>>,
        events |-> <<"createFile">> \o Repeat(<<"convert">>, ConvertCalls(f))
                     \o RetryEvents(retry) \o cleanup.events,
        artifacts |-> artifacts, created |-> Cardinality(artifacts), removed |-> cleanup.removed]

\* ------------------------------------------------------------------------
\* EmailProcessor
\* ------------------------------------------------------------------------
\* SheetService_getSpreadsheetMetadata: the error it throws, NoError when it returns
SheetService_getSpreadsheetMetadata(world, spreadsheetId) ==
  IF \/ Validators_validateSpreadsheetId(spreadsheetId, <<"getSpreadsheetMetadata">>) # NoError
     \/ spreadsheetId \notin Spreadsheets(world)
  THEN ErrorHandler_createError(<<"Failed to get spreadsheet metadata">>,
                                ERROR_CODES.SPREADSHEET_NOT_FOUND)
  ELSE NoError

\* SheetService_validateRequiredSheets
SheetService_validateRequiredSheets(world, spreadsheetId, requiredSheets, context) ==
  LET missingSheets == SelectSeq(requiredSheets, LAMBDA n : <<spreadsheetId, n>> \notin DOMAIN world)
  IN IF spreadsheetId \notin Spreadsheets(world)
     THEN ErrorHandler_createError(context \o <<": Failed to open spreadsheet">>,
                                   ERROR_CODES.SPREADSHEET_NOT_FOUND)
     ELSE IF missingSheets # <<>>
     THEN ErrorHandler_createError(context \o <<": Missing required sheets: ">> \o Join(missingSheets),
                                   ERROR_CODES.SHEET_NOT_FOUND)
     ELSE NoError

\* the body of the forEach of _validateAllConfigurations for one config:
\* the error caught and wrapped, NoError when the config passes
ConfigPreflightError(mailbox, config, index) ==
  IF Validators_validateEmailConfig(config, <<"CONFIG.EMAIL_CONFIGS[", NumStr(index), "]">>) # NoError
  THEN Validators_validateEmailConfig(config, <<"CONFIG.EMAIL_CONFIGS[", NumStr(index), "]">>)
  ELSE IF ~EmailService_labelExists(mailbox, config.label)
  THEN ErrorHandler_createError(<<"Gmail label does not exist: ", config.label>>,
                                ERROR_CODES.LABEL_NOT_FOUND)
  ELSE NoError

\* the configs (1-based positions) that the forEach rejects
RejectedConfigs(mailbox, cfgs) ==
  {i \in 1..Len(cfgs) : ConfigPreflightError(mailbox, cfgs[i], i - 1) # NoError}

Min(S) == CHOOSE x \in S : \A y \in S : x <= y

\* mutant: the pre-flight checks the labels and the sheets but not the structure of the configs
EmailProcessor__validateAllConfigurations_NoStructure(mailbox, world, cfgs) ==
  IF Len(cfgs) = 0
  THEN ErrorHandler_createError(<<"No email configurations found">>, ERROR_CODES.MISSING_PARAMETERS)
  ELSE IF SheetService_getSpreadsheetMetadata(world, MAIN) # NoError
  THEN SheetService_getSpreadsheetMetadata(world, MAIN)
  ELSE IF \E i \in 1..Len(cfgs) : ~IsString(cfgs[i].label) \/ cfgs[i].label \notin DOMAIN mailbox
  THEN ErrorHandler_createError(<<"Configuration validation failed at index ">>,
                                ERROR_CODES.MISSING_PARAMETERS)
  ELSE NoError

\* mutant: a label that does not exist is left to the processing of its config
EmailProcessor__validateAllConfigurations_NoLabelCheck(mailbox, world, cfgs) ==
  LET bad == {i \in 1..Len(cfgs) :
                Validators_validateEmailConfig(cfgs[i], <<"CONFIG.EMAIL_CONFIGS[", NumStr(i - 1), "]">>)
                  # NoError}
  IN
  IF Len(cfgs) = 0
  THEN ErrorHandler_createError(<<"No email configurations found">>, ERROR_CODES.MISSING_PARAMETERS)
  ELSE IF SheetService_getSpreadsheetMetadata(world, MAIN) # NoError
  THEN SheetService_getSpreadsheetMetadata(world, MAIN)
  ELSE IF bad # {}
  THEN ErrorHandler_createError(<<"Configuration validation failed at index ", NumStr(Min(bad) - 1)>>,
                                ERROR_CODES.MISSING_PARAMETERS)
  ELSE SheetService_validateRequiredSheets(world, MAIN, [i \in 1..Len(cfgs) |-> cfgs[i].sheetName],
                                           <<"Email processor validation">>)

\* EmailProcessor__validateAllConfigurations: the error it throws, NoError when it returns
EmailProcessor__validateAllConfigurations(mailbox, world, cfgs) ==
  IF Len(cfgs) = 0
  THEN ErrorHandler_createError(<<"No email configurations found">>, ERROR_CODES.MISSING_PARAMETERS)
  ELSE IF SheetService_getSpreadsheetMetadata(world, MAIN) # NoError
  THEN SheetService_getSpreadsheetMetadata(world, MAIN)
  ELSE IF RejectedConfigs(mailbox, cfgs) # {}
  THEN ErrorHandler_createError(<<"Configuration validation failed at index ",
                                  NumStr(Min(RejectedConfigs(mailbox, cfgs)) - 1)>>,
                                ERROR_CODES.MISSING_PARAMETERS)
  ELSE SheetService_validateRequiredSheets(world, MAIN, [i \in 1..Len(cfgs) |-> cfgs[i].sheetName],
                                           <<"Email processor validation">>)

\* the faults one config can meet while it is processed: those of Drive and
\* the one of the spreadsheet service during updateSheet
ItemFaults == [drive : ReachedDriveFaults, update : {"none", "open", "clear", "insert", "note"}]

NoFaults ==
  [drive |-> [create |-> "ok", convert |-> "ok", failedReads |-> 0,
              trashTemp |-> TRUE, removeConverted |-> TRUE],
   update |-> "none"]

\* the outcome of processSingleConfig when it throws before updateSheet
\* mutant: the item goes on to the write after the step that threw
ItemFailed_ThenWrite(stage, world, error, events, created, removed) ==
  [ok |-> FALSE, stage |-> stage, error |-> error, result |-> UNDEFINED, world |-> world,
   effects |-> <<>>, events |-> events \o <<"open", "clear", "write", "note">>,
   created |-> created, removed |-> removed]

ItemFailed(stage, world, error, events, created, removed) ==
  [ok |-> FALSE, stage |-> stage, error |-> error, result |-> UNDEFINED, world |-> world,
   effects |-> <<>>, events |-> events, created |-> created, removed |-> removed]

\* EmailProcessor_processSingleConfig: [ok, stage, error, result, world,
\* effects, events, created, removed]; stage is the step that threw ("done"
\* when none did), effects are the operations performed on the sheets,
\* events are the steps and the service calls that were started, in order,
\* created and removed count the Drive files
EmailProcessor_processSingleConfig(mailbox, world, config, context, f) ==
  LET invalid == Validators_validateEmailConfig(config, context)
      fetched == EmailService_getLatestEmailByLabel(mailbox, config.label)
      found == EmailService_getExcelAttachment(fetched.message)
      extracted == DriveService_processExcelData(found.attachment, f.drive)
      updated == SheetService_updateSheet(world, MAIN, config.sheetName, config.rangeToClear,
                                          extracted.data, context, f.update)
  IN
  IF invalid # NoError THEN ItemFailed("validate", world, invalid, <<"validate">>, 0, 0)
  ELSE IF fetched.error # NoError
  THEN ItemFailed("fetch", world, fetched.error, <<"validate", "fetch">>, 0, 0)
  ELSE IF found.error # NoError
  THEN ItemFailed("attachment", world, found.error, <<"validate", "fetch", "attachment">>, 0, 0)
  ELSE IF ~extracted.ok
  THEN ItemFailed("extract", world, extracted.error,
                  <<"validate", "fetch", "attachment">> \o extracted.events,
                  extracted.created, extracted.removed)
  ELSE [ok |-> updated.ok, stage |-> IF updated.ok THEN "done" ELSE "update",
        error |-> updated.error,
        result |-> IF updated.ok
                   THEN [spreadsheetId |-> MAIN, sheetName |-> config.sheetName,
                         rowsInserted |-> updated.rowsInserted,
                         columnsInserted |-> updated.columnsInserted,
                         rangeToClear |-> config.rangeToClear,
                         emailSubject |-> fetched.message.subject,
                         attachmentName |-> found.attachment.name,
                         label |-> config.label]
                   ELSE UNDEFINED,
        world |-> updated.world, effects |-> updated.effects,
        events |-> <<"validate", "fetch", "attachment">> \o extracted.events \o updated.attempts,
        created |-> extracted.created, removed |-> extracted.removed]

\* processExcelData throws: the temp file or the conversion failed, or every
\* read of the converted spreadsheet did
DriveFails(f) == f.create # "ok" \/ f.convert # "ok" \/ f.failedReads >= MaxRetries

\* the faults that differ only in calls that processSingleConfig does not
\* reach are one fault: no service of Drive or of the destination is called
\* when the item ends before the extraction, and the destination is not
\* called when processExcelData throws
ReachedItemFaults(mailbox, world, config, context) ==
  IF EmailProcessor_processSingleConfig(mailbox, world, config, context, NoFaults).stage
       \in {"validate", "fetch", "attachment"}
  THEN {NoFaults}
  ELSE {f \in ItemFaults : DriveFails(f.drive) => f.update = "none"}

\* results.push({success: true, config, label, result})
SuccessEntry(config, result) ==
  [success |-> TRUE, config |-> config.sheetName, label |-> config.label, result |-> result]

\* mutant: the failed entry carries no error
FailureEntry_NoError(config, error) ==
  [success |-> FALSE, config |-> config.sheetName, label |-> config.label]

\* results.push({success: false, config, label, error: ErrorHandler_handle(...)})
FailureEntry(config, error) ==
  [success |-> FALSE, config |-> config.sheetName, label |-> config.label,
   error |-> ErrorHandler_handle(error, <<"Processing ", config.sheetName>>)]

\* ------------------------------------------------------------------------
\* DataPusher
\* A push config is [sheetName, range, targets]: one property of
\* CONFIG.PUSH_DATA_CONFIGS.sourceSheets with its key; the configs are in
\* the order in which for-in enumerates the keys.  targets is always an
\* array in the model.
\* ------------------------------------------------------------------------
Validators_validatePushDataConfig(config, context) ==
  FirstError(
    <<ErrorHandler_validateRequired(config, <<"range">>, context),
      Validators_validateRange(config.range, context \o <<".range">>),
      IF Len(config.targets) = 0
      THEN ErrorHandler_createError(context \o <<": Targets must be a non-empty array">>,
                                    ERROR_CODES.MISSING_PARAMETERS)
      ELSE NoError>>
    \o [i \in 1..Len(config.targets) |->
          FirstError(<<
            ErrorHandler_validateRequired(config.targets[i], <<"spreadsheetId", "sheetName">>,
                                          context \o <<".targets[", NumStr(i - 1), "]">>),
            Validators_validateSpreadsheetId(config.targets[i].spreadsheetId,
                                             context \o <<".targets[", NumStr(i - 1), "].spreadsheetId">>),
            Validators_validateSheetName(config.targets[i].sheetName,
                                         context \o <<".targets[", NumStr(i - 1), "].sheetName">>)>>)])

\* the catch of _pushToTarget wraps every error
PushToTargetFailed(world, error, effects) ==
  [error |-> ErrorHandler_createError(<<"Failed to push data to target: ">> \o error.message,
                                      ERROR_CODES.GENERAL_ERROR),
   result |-> UNDEFINED, world |-> world, effects |-> effects]

\* mutant: only column A of the rows 2 to lastRow is cleared
BodyRect_FirstColumn(lastRow) == BlockRect(2, 1, lastRow - 1, 1)

\* all the columns of the rows 2 to lastRow
BodyRect(lastRow) == BlockRect(2, 1, lastRow - 1, MaxCols)

\* DataPusher__pushToTarget: [error, result, world, effects]; fault is the
\* call of the spreadsheet service that fails ("open", "clear", "insert",
\* "note") or "none"
DataPusher__pushToTarget(world, data, target, context, fault) ==
  LET key == <<target.spreadsheetId, target.sheetName>>
      sheet == world[key]
      lastRow == GetLastRow(sheet)
      clears == lastRow > 1
      cleared == IF clears THEN ClearContent(sheet, BodyRect(lastRow)) ELSE sheet
      writes == Len(data) > 0
      written == IF writes THEN SetValues(cleared, BlockRect(2, 1, Len(data), Len(data[1])), data)
                 ELSE cleared
      done == (IF clears THEN <<"clear">> ELSE <<>>) \o (IF writes THEN <<"write">> ELSE <<>>)
  IN
  IF target.spreadsheetId \notin Spreadsheets(world) \/ fault = "open"
  THEN PushToTargetFailed(world, PlainError(<<"Spreadsheet not found">>), <<>>)
  ELSE IF key \notin DOMAIN world
  THEN PushToTargetFailed(world,
         ErrorHandler_createError(context \o <<": Sheet \"", target.sheetName, "\" not found">>,
                                  ERROR_CODES.SHEET_NOT_FOUND), <<>>)
  ELSE IF clears /\ fault = "clear"
  THEN PushToTargetFailed(world, PlainError(<<"Service error">>), <<>>)
  ELSE IF writes /\ (InsertRejected(data) \/ fault = "insert")
  THEN PushToTargetFailed([world EXCEPT ![key] = cleared], PlainError(<<"Service error">>),
                          IF clears THEN <<"clear">> ELSE <<>>)
  ELSE IF fault = "note"
  THEN PushToTargetFailed([world EXCEPT ![key] = written], PlainError(<<"Service error">>), done)
  ELSE [error |-> NoError,
        result |-> [spreadsheetId |-> target.spreadsheetId, sheetName |-> target.sheetName,
                    rowsInserted |-> Len(data),
                    columnsInserted |-> IF Len(data) > 0 THEN Len(data[1]) ELSE 0],
        world |-> [world EXCEPT ![key] = [written EXCEPT !.note = ScriptTimestampNote]],
        effects |-> done \o <<"note">>]

\* targetResults.push({success: true, target, result})
TargetSuccess(target, result) ==
  [success |-> TRUE, target |-> target, result |-> result]

\* targetResults.push({success: false, target, error: ErrorHandler_handle(...)})
TargetFailure(target, error, context) ==
  [success |-> FALSE, target |-> target, error |-> ErrorHandler_handle(error, context)]

\* the loop over config.targets from target i on: [world, targetResults, effects]
RECURSIVE PushTargets(_, _, _, _, _, _)
PushTargets(world, data, targets, context, faults, i) ==
  IF i > Len(targets) THEN [world |-> world, targetResults |-> <<>>, effects |-> <<>>]
  ELSE LET targetContext == context \o <<".target[", NumStr(i - 1), "]">>
           pushed == DataPusher__pushToTarget(world, data, targets[i], targetContext, faults[i])
           rest == PushTargets(pushed.world, data, targets, context, faults, i + 1)
       IN [world |-> rest.world,
           targetResults |->
             <<IF pushed.error = NoError THEN TargetSuccess(targets[i], pushed.result)
               ELSE TargetFailure(targets[i], pushed.error, targetContext)>> \o rest.targetResults,
           effects |-> pushed.effects \o rest.effects]

\* DataPusher_pushSingleSheet: [ok, error, result, world, effects]
DataPusher_pushSingleSheet(world, sourceSheetName, config, context, faults) ==
  LET invalid == Validators_validatePushDataConfig(config, context)
      source == SheetService_readSheetData(world, MAIN, sourceSheetName, config.range,
                                           context \o <<".readSource">>)
      pushed == PushTargets(world, source.data, config.targets, context, faults, 1)
  IN
  IF invalid # NoError
  THEN [ok |-> FALSE, error |-> invalid, result |-> UNDEFINED, world |-> world, effects |-> <<>>]
  ELSE IF ~source.ok
  THEN [ok |-> FALSE, error |-> source.error, result |-> UNDEFINED, world |-> world,
        effects |-> <<>>]
  ELSE [ok |-> TRUE, error |-> NoError,
        result |-> [sourceSheet |-> sourceSheetName, sourceRange |-> config.range,
                    sourceRowCount |-> Len(source.data),
                    sourceColumnCount |-> IF Len(source.data) > 0 THEN Len(source.data[1]) ELSE 0,
                    targetResults |-> pushed.targetResults],
        world |-> pushed.world, effects |-> pushed.effects]

\* the body of the for-in of _validatePushConfigurations for one config
PushConfigPreflightError(world, config) ==
  IF Validators_validatePushDataConfig(config, <<"sourceSheets.", config.sheetName>>) # NoError
  THEN Validators_validatePushDataConfig(config, <<"sourceSheets.", config.sheetName>>)
  ELSE FirstError([i \in 1..Len(config.targets) |->
         IF SheetService_getSpreadsheetMetadata(world, config.targets[i].spreadsheetId) # NoError
         THEN ErrorHandler_createError(<<"Target spreadsheet not accessible: ",
                                         config.targets[i].spreadsheetId>>,
                                       ERROR_CODES.SPREADSHEET_NOT_FOUND)
         ELSE NoError])

RejectedPushConfigs(world, pcfgs) ==
  {i \in 1..Len(pcfgs) : PushConfigPreflightError(world, pcfgs[i]) # NoError}

\* DataPusher__validatePushConfigurations: the error it throws, NoError when it returns
DataPusher__validatePushConfigurations(world, pcfgs) ==
  IF Len(pcfgs) = 0
  THEN ErrorHandler_createError(<<"No source sheets configured">>, ERROR_CODES.MISSING_PARAMETERS)
  ELSE IF SheetService_getSpreadsheetMetadata(world, MAIN) # NoError
  THEN SheetService_getSpreadsheetMetadata(world, MAIN)
  ELSE IF RejectedPushConfigs(world, pcfgs) # {}
  THEN ErrorHandler_createError(<<"Push configuration validation failed for sheet: ",
                                  pcfgs[Min(RejectedPushConfigs(world, pcfgs))].sheetName>>,
                                ERROR_CODES.MISSING_PARAMETERS)
  ELSE SheetService_validateRequiredSheets(world, MAIN, [i \in 1..Len(pcfgs) |-> pcfgs[i].sheetName],
                                           <<"Push data validation">>)

\* results.push({success: true, sourceSheet, result})
PushSuccessEntry(config, result) ==
  [success |-> TRUE, sourceSheet |-> config.sheetName, result |-> result]

\* results.push({success: false, sourceSheet, error: ErrorHandler_handle(...)})
PushFailureEntry(config, error) ==
  [success |-> FALSE, sourceSheet |-> config.sheetName,
   error |-> ErrorHandler_handle(error, <<"Pushing data from ", config.sheetName>>)]

\* ------------------------------------------------------------------------
\* Status reports
\* ------------------------------------------------------------------------
\* EmailService_getLatestEmailDate: null when getLatestEmailByLabel throws;
\* the date of a message is modelled by its subject
EmailService_getLatestEmailDate(mailbox, labelName) ==
  IF EmailService_getLatestEmailByLabel(mailbox, labelName).error # NoError THEN NULL
  ELSE EmailService_getLatestEmailByLabel(mailbox, labelName).message.subject

\* EmailProcessor_getProcessingStatus: status.configurations
EmailProcessor_getProcessingStatus(mailbox, cfgs) ==
  [i \in 1..Len(cfgs) |->
     [index |-> i - 1,
      sheetName |-> cfgs[i].sheetName,
      label |-> cfgs[i].label,
      labelExists |-> EmailService_labelExists(mailbox, cfgs[i].label),
      emailCount |-> EmailService_getEmailCountByLabel(mailbox, cfgs[i].label),
      latestEmailDate |-> EmailService_getLatestEmailDate(mailbox, cfgs[i].label),
      rangeToClear |-> cfgs[i].rangeToClear]]

\* the configResult of EmailProcessor_dryRun for the config at position i
\* mutant: a label without emails makes the entry invalid
DryRunConfigResult_NoEmailsFails(mailbox, config, i) ==
  LET invalid == Validators_validateEmailConfig(config, <<"dryRun.config[", NumStr(i - 1), "]">>)
      exists == EmailService_labelExists(mailbox, config.label)
      count == EmailService_getEmailCountByLabel(mailbox, config.label)
  IN IF invalid # NoError
     THEN [index |-> i - 1, sheetName |-> config.sheetName, label |-> config.label,
           valid |-> FALSE, checks |-> <<>>, error |-> invalid.message]
     ELSE [index |-> i - 1, sheetName |-> config.sheetName, label |-> config.label,
           valid |-> exists /\ count > 0,
           checks |-> [configStructure |-> "PASS",
                       labelExists |-> IF exists THEN "PASS" ELSE "FAIL",
                       hasEmails |-> IF count > 0 THEN "PASS" ELSE "WARN",
                       rangeFormat |-> "PASS"]]

\* the entry of EmailProcessor_dryRun for the config at position i
DryRunConfigResult(mailbox, config, i) ==
  LET invalid == Validators_validateEmailConfig(config, <<"dryRun.config[", NumStr(i - 1), "]">>)
      exists == EmailService_labelExists(mailbox, config.label)
      count == EmailService_getEmailCountByLabel(mailbox, config.label)
  IN IF invalid # NoError
     THEN [index |-> i - 1, sheetName |-> config.sheetName, label |-> config.label,
           valid |-> FALSE, checks |-> <<>>, error |-> invalid.message]
     ELSE [index |-> i - 1, sheetName |-> config.sheetName, label |-> config.label,
           valid |-> exists,
           checks |-> [configStructure |-> "PASS",
                       labelExists |-> IF exists THEN "PASS" ELSE "FAIL",
                       hasEmails |-> IF count > 0 THEN "PASS" ELSE "WARN",
                       rangeFormat |-> "PASS"]]

\* what the config at position i adds to results.errors
DryRunErrors(mailbox, config, i) ==
  LET r == DryRunConfigResult(mailbox, config, i)
  IN IF "error" \in DOMAIN r
     THEN <<(<<"Config ", NumStr(i - 1), " (", config.sheetName, "): ">> \o r.error)>>
     ELSE IF r.checks.labelExists = "FAIL" THEN <<(<<"Label does not exist: ", config.label>>)>>
     ELSE <<>>

\* what the config at position i adds to results.warnings
DryRunWarnings(mailbox, config, i) ==
  LET r == DryRunConfigResult(mailbox, config, i)
  IN IF "error" \notin DOMAIN r /\ r.checks.hasEmails = "WARN"
     THEN <<(<<"No emails found for label: ", config.label>>)>>
     ELSE <<>>

RECURSIVE Flatten(_)
Flatten(seqs) == IF seqs = <<>> THEN <<>> ELSE Head(seqs) \o Flatten(Tail(seqs))

\* EmailProcessor_dryRun: [valid, errors, warnings, configurations]
EmailProcessor_dryRun(mailbox, cfgs) ==
  [valid |-> \A i \in 1..Len(cfgs) : DryRunConfigResult(mailbox, cfgs[i], i).valid,
   errors |-> Flatten([i \in 1..Len(cfgs) |-> DryRunErrors(mailbox, cfgs[i], i)]),
   warnings |-> Flatten([i \in 1..Len(cfgs) |-> DryRunWarnings(mailbox, cfgs[i], i)]),
   configurations |-> [i \in 1..Len(cfgs) |-> DryRunConfigResult(mailbox, cfgs[i], i)]]

\* the entry of DataPusher_getPushDataStatus for one target
PushTargetStatus(world, target, index) ==
  IF SheetService_getSpreadsheetMetadata(world, target.spreadsheetId) = NoError
  THEN [index |-> index, spreadsheetId |-> target.spreadsheetId, sheetName |-> target.sheetName,
        accessible |-> TRUE]
  ELSE [index |-> index, spreadsheetId |-> target.spreadsheetId, sheetName |-> target.sheetName,
        accessible |-> FALSE,
        error |-> SheetService_getSpreadsheetMetadata(world, target.spreadsheetId).message]

\* DataPusher_getPushDataStatus: status.sourceSheets
DataPusher_getPushDataStatus(world, pcfgs) ==
  [i \in 1..Len(pcfgs) |->
     LET source == SheetService_readSheetData(world, MAIN, pcfgs[i].sheetName, pcfgs[i].range,
                                              <<"getPushDataStatus">>)
     IN IF ~source.ok
        THEN [sheetName |-> pcfgs[i].sheetName, error |-> source.error.message]
        ELSE [sheetName |-> pcfgs[i].sheetName, range |-> pcfgs[i].range,
              currentRowCount |-> Len(source.data),
              currentColumnCount |-> IF Len(source.data) > 0 THEN Len(source.data[1]) ELSE 0,
              targetCount |-> Len(pcfgs[i].targets),
              targets |-> [t \in 1..Len(pcfgs[i].targets) |->
                             PushTargetStatus(world, pcfgs[i].targets[t], t - 1)]]]

\* ------------------------------------------------------------------------
\* State
\* ------------------------------------------------------------------------
VARIABLES
  sheets,     \* the spreadsheets: <<spreadsheetId, sheetName>> -> sheet
  sheets0,    \* the spreadsheets when the operation under study was called
  sheets1,    \* destination writer: the spreadsheets after the first updateSheet call
  spc,        \* destination writer: position of the caller
  uArgs,      \* destination writer: the arguments of updateSheet
  uFirst,     \* destination writer: outcome of the first updateSheet call
  uRes,       \* destination writer: outcome of the latest updateSheet call
  readRes,    \* destination writer: outcome of readSheetData
  rpc,        \* withRetry: "call" before the call, "done" after it
  rMax,       \* withRetry: the maxRetries argument
  rOutcomes,  \* withRetry: what each call of the operation does
  rResult,    \* withRetry: the outcome of the call
  cfgs,       \* batch: CONFIG.EMAIL_CONFIGS
  pushCfgs,   \* batch: CONFIG.PUSH_DATA_CONFIGS.sourceSheets, in the order of for-in
  gmail,      \* batch: the mailbox
  drive,      \* batch: the numbers of Drive files created and removed
  op,         \* batch: the entry point that was called
  arg,        \* batch: the argument passed to the entry point
  pc,         \* batch: position in the entry point
  idx,        \* batch: the number of configs the loop has been through
  results,    \* batch: the results array
  thrown,     \* batch: the error thrown by the entry point
  status,     \* batch: the object returned by a status report
  sheetOps,   \* batch: the number of clear, write and note operations performed
  pauses,     \* batch: the number of pauses between configs
  faults,     \* batch: the number of service failures met
  faultsUsed, \* batch: the failures met by each config
  trace,      \* batch: for each config, the steps started and the step that threw
  unit,       \* single call: the function that is called
  unitIn,     \* single call: its argument
  unitOut,    \* single call: what it returned or threw
  unitPc      \* single call: "call" before the call, "done" after it

retryVars == <<rpc, rMax, rOutcomes, rResult>>

sheetVars == <<spc, uArgs, uFirst, uRes, readRes>>

worldVars == <<sheets, sheets0, sheets1>>

batchVars ==
  <<cfgs, pushCfgs, gmail, drive, op, arg, pc, idx, results, thrown, status,
    sheetOps, pauses, faults, faultsUsed, trace>>

unitVars == <<unit, unitIn, unitOut, unitPc>>

vars == <<sheets, sheets0, sheets1, spc, uArgs, uFirst, uRes, readRes, rpc, rMax, rOutcomes, rResult,
          cfgs, pushCfgs, gmail, drive, op, arg, pc, idx, results, thrown, status,
          sheetOps, pauses, faults, faultsUsed, trace, unit, unitIn, unitOut, unitPc>>

NoCall == [ok |-> FALSE, error |-> NoError, rowsInserted |-> 0, columnsInserted |-> 0, fault |-> "none"]

NoRead == [ok |-> FALSE, error |-> NoError, data |-> <<>>]

NoArgs == [sheetName |-> "", rangeToClear |-> "", data |-> <<>>]

RetryIdle == [ok |-> FALSE, value |-> UNDEFINED, error |-> NoError, calls |-> 0, sleeps |-> 0,
              log |-> <<>>]

\* the values of the variables of the operations that a specification leaves out
SheetUnused ==
  spc = "unused" /\ uArgs = NoArgs /\ uFirst = NoCall /\ uRes = NoCall /\ readRes = NoRead

WorldUnused == sheets = <<>> /\ sheets0 = <<>> /\ sheets1 = <<>>

RetryUnused == rpc = "unused" /\ rMax = 0 /\ rOutcomes = <<>> /\ rResult = RetryIdle

NoDrive == [created |-> 0, removed |-> 0]

BatchUnused ==
  /\ cfgs = <<>> /\ pushCfgs = <<>> /\ gmail = <<>> /\ drive = NoDrive
  /\ op = "unused" /\ arg = UNDEFINED /\ pc = "unused" /\ idx = 0
  /\ results = <<>> /\ thrown = NoError /\ status = <<>>
  /\ sheetOps = 0 /\ pauses = 0 /\ faults = 0 /\ faultsUsed = <<>> /\ trace = <<>>

UnitUnused == unit = "unused" /\ unitIn = UNDEFINED /\ unitOut = UNDEFINED /\ unitPc = "unused"

\* ------------------------------------------------------------------------
\* Specification of the destination writer: a sheet in any prior state, the
\* arguments of updateSheet drawn from bounded sets; updateSheet is called,
\* then either called again with the same arguments or followed by
\* readSheetData over the same range.
\* ------------------------------------------------------------------------
CellValues == {"", "a"}

\* the rows of data: every width from 0 to MaxCols
DataRows == UNION {[1..w -> CellValues] : w \in 0..MaxCols}

\* the data arrays: rectangular and ragged, from 0 to MaxDataRows rows
DataArrays == UNION {[1..n -> DataRows] : n \in 0..MaxDataRows}

RangeArgs == {"A2:B", "a2:b", "A2:A", "B2:B", "A1:B", "A2:B2", "Nope", "", UNDEFINED}

\* the failures of the spreadsheet service that a call of updateSheet can meet
UpdateFaults == {"none", "clear", "insert", "note"}

\* a sheet whose header row is filled and whose other rows hold old content
\* from row firstOld downward (no old content when firstOld > GridRows)
PriorSheets ==
  {[cells |-> [rc \in Cells |-> IF rc[1] = 1 THEN "h"
                                ELSE IF rc[1] >= firstOld THEN "old" ELSE ""],
    note |-> ""] : firstOld \in {2, GridRows, GridRows + 1}}

\* what the caller of updateSheet sees
CallSummary(res, fault) ==
  [ok |-> res.ok, error |-> res.error, rowsInserted |-> res.rowsInserted,
   columnsInserted |-> res.columnsInserted, fault |-> fault]

UpdateContext == <<"Sheet update">>

ReadContext == <<"Sheet read">>

InitSheet ==
  /\ \E sh \in PriorSheets : sheets = (<<MAIN, "S1">> :> sh)
  /\ sheets0 = sheets
  /\ sheets1 = sheets
  /\ spc = "start"
  /\ uArgs \in [sheetName : {"S1"}, rangeToClear : RangeArgs, data : DataArrays]
               \cup [sheetName : {"Gone", ""}, rangeToClear : {"A2:B"}, data : {<<>>}]
  /\ uFirst = NoCall
  /\ uRes = NoCall
  /\ readRes = NoRead
  /\ RetryUnused
  /\ BatchUnused
  /\ UnitUnused

UpdateSheetCall(fault) ==
  LET res == SheetService_updateSheet(sheets, MAIN, uArgs.sheetName, uArgs.rangeToClear,
                                      uArgs.data, UpdateContext, fault)
  IN /\ sheets' = res.world
     /\ uRes' = CallSummary(res, fault)

UpdateSheet ==
  /\ spc = "start"
  /\ spc' = "written"
  /\ \E fault \in UpdateFaults : UpdateSheetCall(fault) /\ uFirst' = uRes'
  /\ sheets1' = sheets'
  /\ UNCHANGED <<sheets0, uArgs, readRes, retryVars, unitVars, batchVars>>

UpdateSheetAgain ==
  /\ spc = "written"
  /\ spc' = "rewritten"
  /\ \E fault \in UpdateFaults : UpdateSheetCall(fault)
  /\ UNCHANGED <<sheets0, sheets1, uArgs, uFirst, readRes, retryVars, unitVars, batchVars>>

ReadSheetData ==
  /\ spc = "written"
  /\ spc' = "read"
  /\ readRes' = SheetService_readSheetData(sheets, MAIN, uArgs.sheetName, uArgs.rangeToClear, ReadContext)
  /\ UNCHANGED <<sheets, sheets0, sheets1, uArgs, uFirst, uRes, retryVars, unitVars, batchVars>>

NextSheet == UpdateSheet \/ UpdateSheetAgain \/ ReadSheetData

SpecSheet == InitSheet /\ [][NextSheet]_vars

\* ------------------------------------------------------------------------
\* C8, C9, C10: the destination writer
\* ------------------------------------------------------------------------
TheSheet == sheets[<<MAIN, "S1">>]

TheSheetBefore == sheets0[<<MAIN, "S1">>]

Rectangular(data) == \A i \in 1..Len(data) : Len(data[i]) = Len(data[1])

\* updateSheet was called once, returned normally, and readSheetData was called
WrittenThenRead ==
  /\ spc = "read"
  /\ uArgs.sheetName = "S1"
  /\ uFirst.ok
  /\ Len(uArgs.data) > 0
  /\ Rectangular(uArgs.data)

\* the range starts below the header row, in column A, and covers the written columns
CoversWrittenColumns ==
  /\ A1Rect(uArgs.rangeToClear).r1 = 2
  /\ A1Rect(uArgs.rangeToClear).c1 = 1
  /\ A1Rect(uArgs.rangeToClear).c2 >= Len(uArgs.data[1])

\* C8 as stated: after updateSheet wrote rectangular rows into a destination
\* whose rangeToClear covers the written columns, readSheetData over the same
\* range returns exactly the written rows in the same order.
C8_Original ==
  (WrittenThenRead /\ CoversWrittenColumns) =>
    (readRes.ok /\ readRes.data = uArgs.data)

\* the range is exactly the written columns and reaches the last written row
RangeIsWrittenBlock ==
  /\ A1Rect(uArgs.rangeToClear).r1 = 2
  /\ A1Rect(uArgs.rangeToClear).c1 = 1
  /\ A1Rect(uArgs.rangeToClear).c2 = Len(uArgs.data[1])
  /\ A1Rect(uArgs.rangeToClear).r2 >= Len(uArgs.data) + 1

NoEmptyRow(data) == \A i \in 1..Len(data) : NonEmptyRow(data[i])

\* C8 amended: after updateSheet wrote rectangular rows, none of them
\* entirely empty, into a destination whose rangeToClear starts at A2, is
\* exactly as wide as the rows and reaches the last written row,
\* readSheetData over the same range returns exactly the written rows in the
\* same order.
C8_RoundTrip ==
  (WrittenThenRead /\ RangeIsWrittenBlock /\ NoEmptyRow(uArgs.data)) =>
    (readRes.ok /\ readRes.data = uArgs.data)

\* two different rows were written over old content and read back
C8_Witness ==
  /\ WrittenThenRead
  /\ RangeIsWrittenBlock
  /\ NoEmptyRow(uArgs.data)
  /\ Len(uArgs.data) = 2
  /\ uArgs.data[1] # uArgs.data[2]
  /\ TheSheetBefore.cells[<<GridRows, 1>>] = "old"
  /\ readRes.data = uArgs.data

\* C9: running updateSheet twice with the same destination, rangeToClear and
\* data leaves the cell contents as they were after the first run, for any
\* prior state of the sheet (the second run ending the way the first did:
\* both return, or both throw the same error).
C9_Idempotent ==
  (spc = "rewritten" /\ uArgs.sheetName = "S1" /\ uRes.error = uFirst.error) =>
    TheSheet.cells = sheets1[<<MAIN, "S1">>].cells

\* data was written twice over old content that the range does not cover entirely
C9_Witness ==
  /\ spc = "rewritten"
  /\ uFirst.ok /\ uRes.ok
  /\ uArgs.rangeToClear = "B2:B"
  /\ Len(uArgs.data) = 1
  /\ Len(uArgs.data[1]) = 2
  /\ TheSheetBefore.cells[<<GridRows, 1>>] = "old"
  /\ TheSheet.cells[<<2, 1>>] = "a"
  /\ TheSheet.cells[<<GridRows, 1>>] = "old"

\* updateSheet was called with an empty data array, arguments that pass and
\* a spreadsheet service that does not fail
EmptyDataWritten ==
  /\ spc = "written"
  /\ uArgs.data = <<>>
  /\ uArgs.sheetName = "S1"
  /\ A1Rect(uArgs.rangeToClear) # NoRect
  /\ uRes.fault # "clear"

\* C10: updateSheet with empty data does not fail: it clears rangeToClear,
\* writes nothing and returns rowsInserted = 0 and columnsInserted = 0.
C10_EmptyData ==
  EmptyDataWritten =>
    /\ uRes.ok
    /\ uRes.rowsInserted = 0
    /\ uRes.columnsInserted = 0
    /\ \A rc \in Cells :
         TheSheet.cells[rc] = IF InRect(rc, A1Rect(uArgs.rangeToClear)) THEN ""
                              ELSE TheSheetBefore.cells[rc]

\* old content was cleared by an update with empty data
C10_Witness ==
  /\ EmptyDataWritten
  /\ uArgs.rangeToClear = "A2:B"
  /\ TheSheetBefore.cells[<<2, 1>>] = "old"
  /\ TheSheet.cells[<<2, 1>>] = ""
  /\ uRes.ok
  /\ uRes.rowsInserted = 0

\* ------------------------------------------------------------------------
\* Specification of withRetry: the arguments are drawn from bounded sets,
\* the action applies the function.
\* ------------------------------------------------------------------------
RetryContext == <<"Operation">>

OperationOutcomes ==
  {OkOutcome("v1"), OkOutcome("v2"),
   FailOutcome(PlainError(<<"boom">>)),
   FailOutcome(ErrorHandler_createError(<<"Converted spreadsheet not found or not accessible">>,
                                          ERROR_CODES.SPREADSHEET_NOT_FOUND))}

InitRetry ==
  /\ rpc = "call"
  /\ rMax \in 0..MaxAttempts
  /\ rOutcomes \in [1..MaxAttempts -> OperationOutcomes]
  /\ rResult = RetryIdle
  /\ SheetUnused
  /\ WorldUnused
  /\ BatchUnused
  /\ UnitUnused

CallWithRetry ==
  /\ rpc = "call"
  /\ rpc' = "done"
  /\ rResult' = ErrorHandler_withRetry(rOutcomes, rMax, RetryContext)
  /\ UNCHANGED <<rMax, rOutcomes, sheetVars, worldVars, batchVars, unitVars>>

NextRetry == CallWithRetry

SpecRetry == InitRetry /\ [][NextRetry]_vars

\* ------------------------------------------------------------------------
\* C5
\* ------------------------------------------------------------------------
\* the calls of the operation that succeed among the first maxRetries
SuccessfulCalls == {k \in 1..rMax : rOutcomes[k].ok}

FirstSuccess == CHOOSE k \in SuccessfulCalls : \A j \in SuccessfulCalls : k <= j

CompositeMessage ==
  RetryContext \o <<" failed after ", NumStr(rMax), " attempts. Last error: ">>
    \o rOutcomes[rMax].error.message

\* C5: for maxAttempts >= 1, withRetry calls the operation until its first
\* success or until maxAttempts calls were made, never more: when call k
\* (k <= maxAttempts) is the first to succeed it returns that call's value
\* after exactly k calls; when all maxAttempts calls fail it raises the
\* composite error that names the attempt count and ends with the last
\* underlying error's message.
C5_RetryUntilFirstSuccess ==
  (rpc = "done" /\ rMax >= 1) =>
    IF SuccessfulCalls # {}
    THEN /\ rResult.ok
         /\ rResult.value = rOutcomes[FirstSuccess].value
         /\ rResult.calls = FirstSuccess
    ELSE /\ ~rResult.ok
         /\ rResult.calls = rMax
         /\ rResult.error.message = CompositeMessage

\* the operation fails maxAttempts - 1 times and succeeds on the last allowed call
C5_Witness ==
  /\ rpc = "done"
  /\ rMax = MaxAttempts
  /\ \A k \in 1..(rMax - 1) : ~rOutcomes[k].ok
  /\ rOutcomes[rMax].ok
  /\ rResult.ok
  /\ rResult.calls = rMax

\* ------------------------------------------------------------------------
\* Specification of the batch entry points: one of processAllConfigs,
\* pushAllData, dryRun, getProcessingStatus and getPushDataStatus is called
\* on a configuration drawn from bounded sets, over a mailbox and
\* spreadsheets in a fixed prior state; the spreadsheet and Drive services
\* fail at most MaxFaults times during the call.
\* ------------------------------------------------------------------------
MaxFaults == 1

\* the value true passed as an argument
JSTRUE == "<true>"

Attachment(name, contentType, rows) == [name |-> name, contentType |-> contentType, rows |-> rows]

Message(subject, attachments) == [subject |-> subject, attachments |-> attachments]

\* L1: an older thread and a thread whose last message carries a workbook
\* of a header and two rows; L2: a workbook of a header only; L3: no
\* thread; L4: a message with a PDF only
Mailbox ==
  [l \in {"L1", "L2", "L3", "L4"} |->
     CASE l = "L1" ->
            <<<<Message("first", <<>>),
                Message("report", <<Attachment("notes.pdf", "application/pdf", <<>>),
                                    Attachment("report.xlsx", MIME_EXCEL,
                                               <<<<"h", "h">>, <<"a", "a">>, <<"a", "">>>>)>>)>>,
              <<Message("older", <<>>)>>>>
       [] l = "L2" -> <<<<Message("empty", <<Attachment("empty.xlsx", MIME_EXCEL, <<<<"h", "h">>>>)>>)>>>>
       [] l = "L3" -> <<>>
       [] l = "L4" -> <<<<Message("pdf", <<Attachment("notes.pdf", "application/pdf", <<>>)>>)>>>>]

\* a sheet with a header row and old content in every other row
UsedSheet == [cells |-> [rc \in Cells |-> IF rc[1] = 1 THEN "h" ELSE "old"], note |-> ""]

\* the main spreadsheet with the sheets S1 and S2, the target spreadsheet T1 with the sheet R1
World0 == [k \in {<<MAIN, "S1">>, <<MAIN, "S2">>, <<"T1", "R1">>} |-> UsedSheet]

EmailConfig(label, sheetName, rangeToClear) ==
  [label |-> label, sheetName |-> sheetName, rangeToClear |-> rangeToClear]

\* configs that process, configs whose mail has nothing to process, a label
\* that does not exist, a missing rangeToClear, a missing label, a sheet
\* that does not exist
EmailConfigs ==
  {EmailConfig("L1", "S1", "A2:B"), EmailConfig("L2", "S2", "A2:B"),
   EmailConfig("L3", "S1", "A2:B"), EmailConfig("L4", "S2", "A2:B"),
   EmailConfig("Ghost", "S1", "A2:B"), EmailConfig("L1", "S1", UNDEFINED),
   EmailConfig(UNDEFINED, "S2", "A2:B"), EmailConfig("L2", UNDEFINED, "A2:B"),
   EmailConfig("L1", "Nope", "A2:B")}

EmailConfigLists == UNION {[1..n -> EmailConfigs] : n \in 0..MaxConfigs}

Target(spreadsheetId, sheetName) == [spreadsheetId |-> spreadsheetId, sheetName |-> sheetName]

PushConfig(sheetName, range, targets) == [sheetName |-> sheetName, range |-> range, targets |-> targets]

\* source sheets that push, one target sheet that does not exist, a range
\* that is not a range, a target spreadsheet that is not accessible, a
\* missing range, no target, a source sheet that does not exist
PushConfigs ==
  {PushConfig("S1", "A2:B", <<Target("T1", "R1")>>),
   PushConfig("S2", "A2:A", <<Target("T1", "Gone"), Target("T1", "R1")>>),
   PushConfig("S2", "Nope", <<Target("T1", "R1")>>),
   PushConfig("S1", "A2:B", <<Target("T9", "R1")>>),
   PushConfig("S1", UNDEFINED, <<Target("T1", "R1")>>),
   PushConfig("S2", "A2:B", <<>>),
   PushConfig("Nope", "A2:B", <<Target("T1", "R1")>>)}

\* the keys of an object are distinct
PushConfigLists ==
  {l \in UNION {[1..n -> PushConfigs] : n \in 0..MaxConfigs} :
     \A i, j \in 1..Len(l) : l[i].sheetName = l[j].sheetName => i = j}

DefaultEmailConfigs == <<EmailConfig("L1", "S1", "A2:B")>>

DefaultPushConfigs == <<PushConfig("S1", "A2:B", <<Target("T1", "R1")>>)>>

Init ==
  /\ sheets = World0
  /\ sheets0 = World0
  /\ sheets1 = World0
  /\ gmail = Mailbox
  /\ drive = NoDrive
  /\ \/ cfgs \in EmailConfigLists /\ pushCfgs = DefaultPushConfigs
     \/ cfgs = DefaultEmailConfigs /\ pushCfgs \in PushConfigLists
  /\ op = "none"
  /\ arg = UNDEFINED
  /\ pc = "idle"
  /\ idx = 0
  /\ results = <<>>
  /\ thrown = NoError
  /\ status = <<>>
  /\ sheetOps = 0
  /\ pauses = 0
  /\ faults = 0
  /\ faultsUsed = <<>>
  /\ trace = <<>>
  /\ SheetUnused
  /\ RetryUnused
  /\ UnitUnused

\* the spreadsheets that the spreadsheet service can open when it fails to open id
Unreachable(world, id) ==
  [k \in {key \in DOMAIN world : key[1] # id} |-> world[k]]

\* the number of failures in the faults of one config
FaultCount(f) ==
  (IF f.drive.create = "ok" THEN 0 ELSE 1) + (IF f.drive.convert = "ok" THEN 0 ELSE 1)
    + (IF f.drive.failedReads = 0 THEN 0 ELSE 1)
    + (IF f.drive.trashTemp THEN 0 ELSE 1) + (IF f.drive.removeConverted THEN 0 ELSE 1)
    + (IF f.update = "none" THEN 0 ELSE 1)

\* the caller may pass any argument: processAllConfigs declares no parameter
CallProcessAllConfigs ==
  /\ pc = "idle"
  /\ op' = "processAllConfigs"
  /\ arg' \in {UNDEFINED, JSTRUE}
  /\ pc' = "validate"
  /\ UNCHANGED <<cfgs, pushCfgs, gmail, trace, drive, idx, results, thrown, status, sheetOps, pauses,
                 faults, faultsUsed, worldVars, sheetVars, retryVars, unitVars>>

\* EmailProcessor__validateAllConfigurations(); an error goes through the outer catch
ValidateAllConfigurations ==
  /\ op = "processAllConfigs"
  /\ pc = "validate"
  /\ \E opens \in BOOLEAN :
       LET error == EmailProcessor__validateAllConfigurations(
                      gmail, IF opens THEN sheets ELSE Unreachable(sheets, MAIN), cfgs)
       IN /\ ~opens => faults < MaxFaults
          /\ faults' = IF opens THEN faults ELSE faults + 1
          /\ thrown' = error
          /\ pc' = IF error = NoError THEN "loop" ELSE "thrown"
  /\ UNCHANGED <<cfgs, pushCfgs, gmail, trace, drive, op, arg, idx, results, status, sheetOps, pauses,
                 faultsUsed, worldVars, sheetVars, retryVars, unitVars>>

ConfigContext(i, config) == <<"config[", NumStr(i), "]_", config.sheetName>>

\* mutant: the pause is taken after the last config as well
PauseAfter_Every(i, n) == 1

\* Utilities.sleep(500) at the end of iteration i (counted from 0) of the
\* loop over n configs: the number of pauses taken
PauseAfter(i, n) == IF i < n - 1 THEN 1 ELSE 0

\* mutant: no catch in the loop, the failure of a config ends the call
ProcessConfig_Rethrow ==
  /\ op = "processAllConfigs"
  /\ pc = "loop"
  /\ idx < Len(cfgs)
  /\ LET config == cfgs[idx + 1]
         context == ConfigContext(idx, config)
     IN \E f \in ReachedItemFaults(gmail, sheets, config, context) :
          \E item \in {EmailProcessor_processSingleConfig(gmail, sheets, config, context, f)} :
             /\ faults + FaultCount(f) <= MaxFaults
             /\ faults' = faults + FaultCount(f)
             /\ faultsUsed' = Append(faultsUsed, f)
             /\ trace' = Append(trace, [events |-> item.events, stage |-> item.stage,
                                      code |-> item.error.code])
             /\ sheets' = item.world
             /\ drive' = [created |-> drive.created + item.created,
                          removed |-> drive.removed + item.removed]
             /\ sheetOps' = sheetOps + Len(item.effects)
             /\ results' = IF item.ok THEN Append(results, SuccessEntry(config, item.result))
                           ELSE results
             /\ pc' = IF item.ok THEN pc ELSE "thrown"
             /\ thrown' = IF item.ok THEN thrown ELSE item.error
             /\ idx' = IF item.ok THEN idx + 1 ELSE idx
  /\ pauses' = pauses
  /\ UNCHANGED <<cfgs, pushCfgs, gmail, op, arg, status, sheets0, sheets1, sheetVars, retryVars, unitVars>>

\* one iteration of the loop of processAllConfigs: the try, the catch and the pause
ProcessConfig ==
  /\ op = "processAllConfigs"
  /\ pc = "loop"
  /\ idx < Len(cfgs)
  /\ LET config == cfgs[idx + 1]
         context == ConfigContext(idx, config)
     IN \E f \in ReachedItemFaults(gmail, sheets, config, context) :
          \E item \in {EmailProcessor_processSingleConfig(gmail, sheets, config, context, f)} :
             /\ faults + FaultCount(f) <= MaxFaults
             /\ faults' = faults + FaultCount(f)
             /\ faultsUsed' = Append(faultsUsed, f)
             /\ trace' = Append(trace, [events |-> item.events, stage |-> item.stage,
                                      code |-> item.error.code])
             /\ sheets' = item.world
             /\ drive' = [created |-> drive.created + item.created,
                          removed |-> drive.removed + item.removed]
             /\ sheetOps' = sheetOps + Len(item.effects)
             /\ results' = Append(results, IF item.ok THEN SuccessEntry(config, item.result)
                                           ELSE FailureEntry(config, item.error))
  /\ pauses' = pauses + PauseAfter(idx, Len(cfgs))
  /\ idx' = idx + 1
  /\ UNCHANGED <<cfgs, pushCfgs, gmail, op, arg, pc, thrown, status, sheets0, sheets1,
                 sheetVars, retryVars, unitVars>>

\* mutant: the loop is never left
ReturnResults_Never ==
  /\ op = "processAllConfigs"
  /\ pc = "loop"
  /\ idx > Len(cfgs)
  /\ pc' = "returned"
  /\ UNCHANGED <<cfgs, pushCfgs, gmail, trace, drive, op, arg, idx, results, thrown, status, sheetOps,
                 pauses, faults, faultsUsed, worldVars, sheetVars, retryVars, unitVars>>

\* AppLogger_batchSummary(...); return results
ReturnResults ==
  /\ op = "processAllConfigs"
  /\ pc = "loop"
  /\ idx = Len(cfgs)
  /\ pc' = "returned"
  /\ UNCHANGED <<cfgs, pushCfgs, gmail, trace, drive, op, arg, idx, results, thrown, status, sheetOps,
                 pauses, faults, faultsUsed, worldVars, sheetVars, retryVars, unitVars>>

CallPushAllData ==
  /\ pc = "idle"
  /\ op' = "pushAllData"
  /\ pc' = "validate"
  /\ UNCHANGED <<cfgs, pushCfgs, gmail, trace, drive, arg, idx, results, thrown, status, sheetOps,
                 pauses, faults, faultsUsed, worldVars, sheetVars, retryVars, unitVars>>

\* DataPusher__validatePushConfigurations(); an error goes through the outer catch
ValidatePushConfigurations ==
  /\ op = "pushAllData"
  /\ pc = "validate"
  /\ \E opens \in BOOLEAN :
       LET error == DataPusher__validatePushConfigurations(
                      IF opens THEN sheets ELSE Unreachable(sheets, MAIN), pushCfgs)
       IN /\ ~opens => faults < MaxFaults
          /\ faults' = IF opens THEN faults ELSE faults + 1
          /\ thrown' = error
          /\ pc' = IF error = NoError THEN "loop" ELSE "thrown"
  /\ UNCHANGED <<cfgs, pushCfgs, gmail, trace, drive, op, arg, idx, results, status, sheetOps, pauses,
                 faultsUsed, worldVars, sheetVars, retryVars, unitVars>>

PushFaults == {"none", "open", "clear", "insert", "note"}

RECURSIVE PushFaultCount(_)
PushFaultCount(fs) ==
  IF fs = <<>> THEN 0
  ELSE (IF Head(fs) = "none" THEN 0 ELSE 1) + PushFaultCount(Tail(fs))

\* one iteration of the for-in of pushAllData: the try and the catch
PushSourceSheet ==
  /\ op = "pushAllData"
  /\ pc = "loop"
  /\ idx < Len(pushCfgs)
  /\ LET config == pushCfgs[idx + 1]
     IN \E fs \in [1..Len(config.targets) -> PushFaults] :
          LET item == DataPusher_pushSingleSheet(sheets, config.sheetName, config,
                                                 <<"Single sheet push">>, fs)
          IN /\ faults + PushFaultCount(fs) <= MaxFaults
             /\ ~item.ok => PushFaultCount(fs) = 0
             /\ faults' = faults + PushFaultCount(fs)
             /\ faultsUsed' = Append(faultsUsed, fs)
             /\ sheets' = item.world
             /\ sheetOps' = sheetOps + Len(item.effects)
             /\ results' = Append(results, IF item.ok THEN PushSuccessEntry(config, item.result)
                                           ELSE PushFailureEntry(config, item.error))
  /\ idx' = idx + 1
  /\ UNCHANGED <<cfgs, pushCfgs, gmail, trace, drive, op, arg, pc, thrown, status, pauses,
                 sheets0, sheets1, sheetVars, retryVars, unitVars>>

\* AppLogger_batchSummary(...); return results
ReturnPushResults ==
  /\ op = "pushAllData"
  /\ pc = "loop"
  /\ idx = Len(pushCfgs)
  /\ pc' = "returned"
  /\ UNCHANGED <<cfgs, pushCfgs, gmail, trace, drive, op, arg, idx, results, thrown, status, sheetOps,
                 pauses, faults, faultsUsed, worldVars, sheetVars, retryVars, unitVars>>

\* a status report returns its object; it calls no operation that changes
\* the mailbox, the spreadsheets or Drive
Report(name, report) ==
  /\ pc = "idle"
  /\ op' = name
  /\ status' = report
  /\ pc' = "returned"
  /\ UNCHANGED <<cfgs, pushCfgs, gmail, trace, drive, arg, idx, results, thrown, sheetOps, pauses,
                 faults, faultsUsed, sheetVars, retryVars, unitVars>>

\* mutant: the dry run processes the first config
DryRun_Processing ==
  /\ Report("dryRun", EmailProcessor_dryRun(gmail, cfgs))
  /\ sheets' = IF cfgs = <<>> THEN sheets
               ELSE EmailProcessor_processSingleConfig(gmail, sheets, cfgs[1],
                                                       <<"dryRun">>, NoFaults).world
  /\ UNCHANGED <<sheets0, sheets1>>

DryRun ==
  /\ Report("dryRun", EmailProcessor_dryRun(gmail, cfgs))
  /\ UNCHANGED worldVars

GetProcessingStatus ==
  /\ Report("getProcessingStatus", EmailProcessor_getProcessingStatus(gmail, cfgs))
  /\ UNCHANGED worldVars

\* the spreadsheet service may fail to open the target spreadsheets
GetPushDataStatus ==
  /\ \E opens \in BOOLEAN :
       Report("getPushDataStatus",
              DataPusher_getPushDataStatus(IF opens THEN sheets ELSE Unreachable(sheets, "T1"),
                                           pushCfgs))
  /\ UNCHANGED worldVars

Next ==
  \/ CallProcessAllConfigs
  \/ ValidateAllConfigurations
  \/ ProcessConfig
  \/ ReturnResults
  \/ CallPushAllData
  \/ ValidatePushConfigurations
  \/ PushSourceSheet
  \/ ReturnPushResults
  \/ DryRun
  \/ GetProcessingStatus
  \/ GetPushDataStatus

Spec == Init /\ [][Next]_vars

\* the call has ended
Ended == pc \in {"returned", "thrown"}

\* A call of processAllConfigs runs to its end: the script runs in one
\* thread, every statement of the function is executed once the function
\* was called, and every service call it makes returns or throws. The
\* calls themselves come from a trigger or from the menu and are not forced.
NextProcessAll ==
  \/ CallProcessAllConfigs
  \/ ValidateAllConfigurations
  \/ ProcessConfig
  \/ ReturnResults

\* the condition of the for loop: i < CONFIG.EMAIL_CONFIGS.length. An
\* iteration is possible whenever it holds (the iteration without a failure
\* of a service is always possible) and it changes idx, so this is
\* ENABLED <<ProcessConfig>>_vars
LoopCondition == op = "processAllConfigs" /\ pc = "loop" /\ idx < Len(cfgs)

\* weak fairness of ProcessConfig, with its enabling condition written out
ProcessConfigFair == []<>(~LoopCondition) \/ []<><<ProcessConfig>>_vars

SpecProcessAll ==
  /\ Init
  /\ [][NextProcessAll]_vars
  /\ WF_vars(ValidateAllConfigurations)
  /\ WF_vars(ReturnResults)
  /\ ProcessConfigFair

\* ------------------------------------------------------------------------
\* C1 - C4, C6, C7: the batch entry points
\* ------------------------------------------------------------------------
\* label, sheetName or rangeToClear is missing
MissingField(config) ==
  \E field \in {"label", "sheetName", "rangeToClear"} : config[field] \in {UNDEFINED, NULL, ""}

\* the config names a label that the mailbox does not have
LabelMissing(config) == ~MissingField(config) /\ config.label \notin DOMAIN gmail

Processing == op = "processAllConfigs"

\* C1: in processAllConfigs over a list of at least one config of which one
\* has a bad structure (label, sheetName or rangeToClear missing), the loop
\* over the configs is never entered: no clear, write or note operation is
\* performed on any sheet, also not for the configs before the bad one, and
\* once pre-flight has run the call has failed with an error.
C1_PreflightBeforeSideEffects ==
  (Processing /\ Len(cfgs) >= 1 /\ \E i \in 1..Len(cfgs) : MissingField(cfgs[i]))
    => /\ sheetOps = 0
       /\ sheets = sheets0
       /\ drive = NoDrive
       /\ idx = 0 /\ results = <<>>
       /\ pc \in {"validate", "thrown"}
       /\ pc = "thrown" => thrown # NoError

C1_Witness ==
  /\ Processing /\ pc = "thrown" /\ faults = 0
  /\ Len(cfgs) = 2
  /\ cfgs[1] = EmailConfig("L1", "S1", "A2:B")
  /\ MissingField(cfgs[2])

\* what processSingleConfig does for the config at position j when it is
\* run alone on the spreadsheets as they were before the call, with the
\* service failures that the config met in the batch
Alone(j) ==
  EmailProcessor_processSingleConfig(gmail, sheets0, cfgs[j], ConfigContext(j - 1, cfgs[j]),
                                     faultsUsed[j])

\* no other config of the list writes to the sheet of the config at position j
OwnSheet(j) == \A k \in 1..Len(cfgs) : k # j => cfgs[k].sheetName # cfgs[j].sheetName

\* C2: once pre-flight has passed, processAllConfigs does not throw; every
\* config the loop has been through has an entry, success:false with a
\* non-empty error message exactly when its own fetch, attachment lookup,
\* extraction or write failed, and the entry, and at the end the content of
\* its sheet, are those the config produces when it is processed alone,
\* whatever happened to the other configs.
C2_FailuresAreIsolated ==
  /\ (Processing /\ pc = "thrown") => (idx = 0 /\ results = <<>>)
  /\ (Processing /\ pc \in {"loop", "returned"})
       => /\ thrown = NoError
          /\ Len(results) = idx
          /\ pc = "returned" => idx = Len(cfgs)
          /\ \A j \in 1..idx :
               /\ results[j].success = Alone(j).ok
               /\ results[j] = IF Alone(j).ok THEN SuccessEntry(cfgs[j], Alone(j).result)
                               ELSE FailureEntry(cfgs[j], Alone(j).error)
               /\ ~results[j].success
                    => /\ Alone(j).stage \in {"fetch", "attachment", "extract", "update"}
                       /\ Len(results[j].error) > 0
               /\ (pc = "returned" /\ OwnSheet(j))
                    => sheets[<<MAIN, cfgs[j].sheetName>>] = Alone(j).world[<<MAIN, cfgs[j].sheetName>>]

\* the first config fails on a service failure during its write, the second succeeds
C2_Witness ==
  /\ Processing /\ pc = "returned"
  /\ Len(cfgs) = 2
  /\ ~results[1].success /\ faultsUsed[1].update = "insert"
  /\ results[2].success

\* the configured items of the entry point
Items == IF op \in {"pushAllData", "getPushDataStatus"} THEN pushCfgs ELSE cfgs

EntryOfItem(entry, item) ==
  IF op = "pushAllData" THEN entry.sourceSheet = item.sheetName
  ELSE entry.config = item.sheetName /\ entry.label = item.label

\* C3: when processAllConfigs or pushAllData returns, the result list has
\* one entry per configured item, in the order of the configuration; every
\* entry has a boolean success, a failed entry has an error and no result,
\* a successful entry has a result and no error, and the number of
\* successful entries plus the number of failed entries is the total.
C3_OneEntryPerItem ==
  (op \in {"processAllConfigs", "pushAllData"} /\ pc = "returned")
    => /\ Len(results) = Len(Items)
       /\ \A i \in 1..Len(results) :
            /\ EntryOfItem(results[i], Items[i])
            /\ results[i].success \in BOOLEAN
            /\ results[i].success => ("result" \in DOMAIN results[i] /\ "error" \notin DOMAIN results[i])
            /\ ~results[i].success
                 => /\ "error" \in DOMAIN results[i] /\ "result" \notin DOMAIN results[i]
                    /\ Len(results[i].error) > 0
       /\ Cardinality({i \in 1..Len(results) : results[i].success})
            + Cardinality({i \in 1..Len(results) : ~results[i].success}) = Len(Items)

\* pushAllData returns one successful and one failed entry
C3_Witness ==
  /\ op = "pushAllData" /\ pc = "returned"
  /\ Len(results) = 2
  /\ results[1].success /\ ~results[2].success

\* the message matches /does not exist/
MatchesDoesNotExist(message) ==
  \E k \in 1..Len(message) :
     message[k] \in {"\" does not exist", "Gmail label does not exist: ", "Label does not exist: "}

UpToFirstMissingLabel ==
  {i \in 1..Len(cfgs) : \A k \in 1..(i - 1) : ~LabelMissing(cfgs[k])}

C6_DryRunArgument ==
  (Processing /\ arg = JSTRUE)
    => /\ sheetOps = 0
       /\ sheets = sheets0
       /\ drive.created = 0

StatusReports == {"dryRun", "getProcessingStatus", "getPushDataStatus"}

\* the entry of the report for the config at position i
StatusEntry(i) == IF op = "dryRun" THEN status.configurations[i] ELSE status[i]

\* the failure on the config at position i is in its entry
FailureReported(i) ==
  CASE op = "dryRun" ->
         /\ MissingField(cfgs[i])
              => (~StatusEntry(i).valid /\ "error" \in DOMAIN StatusEntry(i)
                    /\ Len(StatusEntry(i).error) > 0)
         /\ LabelMissing(cfgs[i])
              => (~StatusEntry(i).valid /\ StatusEntry(i).checks.labelExists = "FAIL")
         /\ (~MissingField(cfgs[i]) /\ ~LabelMissing(cfgs[i])) => StatusEntry(i).valid
    [] op = "getProcessingStatus" ->
         /\ StatusEntry(i).labelExists = (cfgs[i].label \in DOMAIN gmail)
         /\ ~StatusEntry(i).labelExists
              => (StatusEntry(i).emailCount = 0 /\ StatusEntry(i).latestEmailDate = NULL)
    [] op = "getPushDataStatus" ->
         /\ "error" \in DOMAIN StatusEntry(i)
              <=> ~SheetService_readSheetData(sheets, MAIN, pushCfgs[i].sheetName,
                                              pushCfgs[i].range, <<"getPushDataStatus">>).ok
         /\ "error" \notin DOMAIN StatusEntry(i)
              => /\ Len(StatusEntry(i).targets) = Len(pushCfgs[i].targets)
                 /\ \A t \in 1..Len(StatusEntry(i).targets) :
                      ~StatusEntry(i).targets[t].accessible
                        => "error" \in DOMAIN StatusEntry(i).targets[t]

WrittenBelowHeader ==
  /\ spc = "written"
  /\ uArgs.sheetName = "S1"
  /\ uFirst.ok
  /\ A1Rect(uArgs.rangeToClear) # NoRect
  /\ A1Rect(uArgs.rangeToClear).r1 = 2

\* the rows 2..n+1, columns 1..m hold the input rows and row 1 is as it was
RowsWrittenHeaderKept ==
  /\ \A r \in 1..Len(uArgs.data) : \A c \in 1..Len(uArgs.data[1]) :
       TheSheet.cells[<<r + 1, c>>] = uArgs.data[r][c]
  /\ \A c \in 1..MaxCols : TheSheet.cells[<<1, c>>] = TheSheetBefore.cells[<<1, c>>]

\* C11 as stated: after a successful updateSheet with a rangeToClear that
\* starts at row 2, rows 2..n+1 hold the input rows, row 1 is unchanged and
\* A1 bears the 'Updated on' note.
C11_Original ==
  WrittenBelowHeader => (RowsWrittenHeaderKept /\ TheSheet.note = TimestampNote)

\* C11: after a successful updateSheet with n rows of m columns and a
\* rangeToClear that starts at row 2, rows 2..n+1, columns 1..m hold the
\* input rows and the cells of row 1 are unchanged; A1 bears the 'Updated
\* on' note when setting the note did not fail, and keeps the note it had
\* when it did.
C11_HeaderUntouched ==
  WrittenBelowHeader
    => /\ RowsWrittenHeaderKept
       /\ TheSheet.note = IF uFirst.fault = "note" THEN TheSheetBefore.note ELSE TimestampNote

\* two rows of two columns were written below the header
C11_Witness ==
  /\ WrittenBelowHeader
  /\ uFirst.fault = "none"
  /\ Len(uArgs.data) = 2 /\ Len(uArgs.data[1]) = 2
  /\ uArgs.data[1][1] = "a"
  /\ TheSheet.cells[<<1, 1>>] = "h"
  /\ TheSheet.note = TimestampNote

\* ------------------------------------------------------------------------
\* C12: a failure to set the note in the two destination writers
\* ------------------------------------------------------------------------
\* the target sheet of target t of push config i exists
TargetSheetExists(i, t) ==
  <<pushCfgs[i].targets[t].spreadsheetId, pushCfgs[i].targets[t].sheetName>> \in DOMAIN sheets0

\* C12 as stated: in updateSheet and in _pushToTarget a failure to set the
\* note on A1 after the data was written is swallowed: the item of the
\* email batch and the target of the push have success:true.
C12_NoteFailureSwallowed ==
  /\ Processing
       => \A j \in 1..Len(results) : faultsUsed[j].update = "note" => results[j].success
  /\ op = "pushAllData"
       => \A i \in 1..Len(results) :
            results[i].success
              => \A t \in 1..Len(pushCfgs[i].targets) :
                   (faultsUsed[i][t] = "note" /\ TargetSheetExists(i, t))
                     => results[i].result.targetResults[t].success

\* the part of C12 that holds, the email path: the config whose setNote
\* failed has an entry success:true with the rows inserted
C12_EmailPathWitness ==
  /\ Processing /\ pc = "returned"
  /\ Len(results) = 1
  /\ faultsUsed[1].update = "note"
  /\ results[1].success
  /\ results[1].result.rowsInserted = 2

\* ------------------------------------------------------------------------
\* Specification of the single calls: one function of the validators or of
\* the Drive service is called once on an argument drawn from a bounded set.
\* ------------------------------------------------------------------------
\* the sheets of a workbook: every rectangle of cells from 0 to
\* MaxDataRows + 1 rows (a header and the data rows)
UnitSheets ==
  UNION {[1..n -> [1..w -> CellValues]] : n \in 0..(MaxDataRows + 1), w \in 1..MaxCols}

\* the workbooks: a first sheet, alone or followed by a second sheet
UnitWorkbooks ==
  {<<s>> : s \in UnitSheets} \cup {<<s, <<<<"z">>, <<"z">>>>>> : s \in UnitSheets}

\* the attachments handed to processExcelData
UnitAttachments ==
  {Attachment("report.xlsx", MIME_EXCEL, rows) :
     rows \in {<<>>, <<<<"h">>>>, <<<<"h">>, <<"a">>>>, <<<<"h">>, <<"a">>, <<"">>>>}}

\* the values of a field of a config
FieldValues == {UNDEFINED, NULL, NUMBER, "", " ", "x"}

\* the values of a rangeToClear: those of a field, a range that matches the
\* pattern and a string that does not
RangeValues == (FieldValues \ {"x"}) \cup {"A2:B", "Nope"}

\* the strings of the model that match /^[a-zA-Z0-9_-]{44}$/: MAIN and "T1"
\* stand for ids of 44 characters
SpreadsheetIdPatternMatches == {MAIN, "T1"}

\* the spreadsheet ids; 'invalid' is the id of the tests
SpreadsheetIdValues == {UNDEFINED, NULL, NUMBER, "", " ", "invalid", MAIN, "T1"}

\* the dates of the messages
MaxDate == 2

\* the messages of a label: a date each, no attachment
DatedMessages ==
  {[subject |-> "m", attachments |-> <<>>, date |-> d] : d \in 1..MaxDate}

\* the threads of a label: one or two messages each
DatedThreads == UNION {[1..n -> DatedMessages] : n \in 1..2}

\* the mailboxes: the label "L" with no thread, one thread or two, the first
\* being the one that label.getThreads(0, 1) returns
UnitMailboxes ==
  {[l \in {"L"} |-> threads] : threads \in UNION {[1..n -> DatedThreads] : n \in 0..2}}

\* the target sheets of a push: the sheets of the destination writer, an
\* empty sheet, and a sheet whose only content below the header is in the
\* last column of the last row
PushPriorSheets ==
  PriorSheets
    \cup {[cells |-> [rc \in Cells |-> ""], note |-> ""],
          [cells |-> [rc \in Cells |-> IF rc[1] = 1 THEN "h"
                                       ELSE IF rc = <<GridRows, MaxCols>> THEN "old" ELSE ""],
           note |-> ""]}

\* the data read from a source sheet: rows of one width, at least one column
RectangularArrays ==
  {d \in DataArrays : \A i \in 1..Len(d) : Len(d[i]) = Len(d[1]) /\ Len(d[i]) > 0}

\* the elements that a data array can hold: arrays and strings of every
\* length up to MaxCols, and null
RowValues == [kind : {"array", "string"}, length : 0..MaxCols] \cup {[kind |-> "null", length |-> 0]}

\* the values passed as data: a value that is not an array, and the arrays
\* of up to MaxDataRows elements
DataValues ==
  {[isArray |-> FALSE, rows |-> <<>>]}
    \cup {[isArray |-> TRUE, rows |-> r] : r \in UNION {[1..n -> RowValues] : n \in 0..MaxDataRows}}

InitUnit ==
  /\ unitPc = "call"
  /\ unitOut = UNDEFINED
  /\ \/ unit = "processExcelData"
        /\ unitIn \in [attachment : UnitAttachments, f : ReachedDriveFaults]
     \/ unit = "extractDataFromSheet" /\ unitIn \in UnitWorkbooks
     \/ unit = "getLatestEmailByLabel"
        /\ unitIn \in [mailbox : UnitMailboxes, labelName : {"L", "Ghost", "", UNDEFINED}]
     \/ unit = "pushToTarget"
        /\ unitIn \in [sheet : PushPriorSheets, data : RectangularArrays, fault : UpdateFaults]
     \/ unit = "validateDataArray" /\ unitIn \in DataValues
     \/ unit = "updateSheet"
        /\ unitIn \in [sheet : PriorSheets, rangeToClear : {"A2:B"}, data : DataArrays]
     \/ unit = "validateSpreadsheetId" /\ unitIn \in SpreadsheetIdValues
     \/ unit = "validateEmailConfig"
        /\ unitIn \in [label : FieldValues, sheetName : FieldValues, rangeToClear : RangeValues]
     \/ unit = "validateRequired"
        /\ unitIn \in [params : [a : FieldValues, b : FieldValues],
                       required : {<<>>, <<"a">>, <<"b">>, <<"a", "b">>}]
  /\ SheetUnused
  /\ WorldUnused
  /\ RetryUnused
  /\ BatchUnused

CallProcessExcelData ==
  /\ unit = "processExcelData"
  /\ unitPc = "call"
  /\ unitOut' = DriveService_processExcelData(unitIn.attachment, unitIn.f)
  /\ unitPc' = "done"
  /\ UNCHANGED <<unit, unitIn, sheetVars, worldVars, retryVars, batchVars>>

CallExtractDataFromSheet ==
  /\ unit = "extractDataFromSheet"
  /\ unitPc = "call"
  /\ unitOut' = DriveService__extractDataFromSheet(unitIn)
  /\ unitPc' = "done"
  /\ UNCHANGED <<unit, unitIn, sheetVars, worldVars, retryVars, batchVars>>

\* called without a context: context = context || 'Spreadsheet ID'
CallValidateSpreadsheetId ==
  /\ unit = "validateSpreadsheetId"
  /\ unitPc = "call"
  /\ unitOut' = Validators_validateSpreadsheetId(unitIn, <<"Spreadsheet ID">>)
  /\ unitPc' = "done"
  /\ UNCHANGED <<unit, unitIn, sheetVars, worldVars, retryVars, batchVars>>

CallValidateEmailConfig ==
  /\ unit = "validateEmailConfig"
  /\ unitPc = "call"
  /\ unitOut' = Validators_validateEmailConfig(unitIn, <<"Email config">>)
  /\ unitPc' = "done"
  /\ UNCHANGED <<unit, unitIn, sheetVars, worldVars, retryVars, batchVars>>

CallValidateRequired ==
  /\ unit = "validateRequired"
  /\ unitPc = "call"
  /\ unitOut' = ErrorHandler_validateRequired(unitIn.params, unitIn.required, <<"Operation">>)
  /\ unitPc' = "done"
  /\ UNCHANGED <<unit, unitIn, sheetVars, worldVars, retryVars, batchVars>>

CallGetLatestEmailByLabel ==
  /\ unit = "getLatestEmailByLabel"
  /\ unitPc = "call"
  /\ unitOut' = EmailService_getLatestEmailByLabel(unitIn.mailbox, unitIn.labelName)
  /\ unitPc' = "done"
  /\ UNCHANGED <<unit, unitIn, sheetVars, worldVars, retryVars, batchVars>>

CallPushToTarget ==
  /\ unit = "pushToTarget"
  /\ unitPc = "call"
  /\ unitOut' = DataPusher__pushToTarget((<<"T1", "R1">> :> unitIn.sheet), unitIn.data,
                                         Target("T1", "R1"), <<"pushSingleSheet_S1">>,
                                         unitIn.fault)
  /\ unitPc' = "done"
  /\ UNCHANGED <<unit, unitIn, sheetVars, worldVars, retryVars, batchVars>>

CallValidateDataArray ==
  /\ unit = "validateDataArray"
  /\ unitPc = "call"
  /\ unitOut' = Validators_validateDataArray(unitIn, <<"Sheet update.data">>)
  /\ unitPc' = "done"
  /\ UNCHANGED <<unit, unitIn, sheetVars, worldVars, retryVars, batchVars>>

CallUpdateSheet ==
  /\ unit = "updateSheet"
  /\ unitPc = "call"
  /\ unitOut' = SheetService_updateSheet((<<MAIN, "S1">> :> unitIn.sheet), MAIN, "S1",
                                         unitIn.rangeToClear, unitIn.data, UpdateContext, "none")
  /\ unitPc' = "done"
  /\ UNCHANGED <<unit, unitIn, sheetVars, worldVars, retryVars, batchVars>>

NextUnit ==
  \/ CallValidateDataArray
  \/ CallUpdateSheet
  \/ CallGetLatestEmailByLabel
  \/ CallPushToTarget
  \/ CallProcessExcelData
  \/ CallExtractDataFromSheet
  \/ CallValidateSpreadsheetId
  \/ CallValidateEmailConfig
  \/ CallValidateRequired

SpecUnit == InitUnit /\ [][NextUnit]_vars

Returned(name) == unit = name /\ unitPc = "done"

\* ------------------------------------------------------------------------
\* C13: the temporary files of processExcelData
\* ------------------------------------------------------------------------
\* the call that removes an artifact
RemovalOf(artifact) == IF artifact = "temp" THEN "trashTemp" ELSE "removeConverted"

Removals == {"trashTemp", "removeConverted"}

\* the positions of the events of a kind in a sequence of events
Positions(events, kinds) == {i \in 1..Len(events) : events[i] \in kinds}

\* C13 as stated: when processExcelData has returned or thrown, a removal
\* was attempted for every temporary file that the call created, the
\* cleanup delay came before every removal, and the outcome is the one of
\* the same call with both removals succeeding.
C13_EveryArtifactRemoved ==
  Returned("processExcelData") =>
    LET clean == DriveService_processExcelData(
                   unitIn.attachment, [unitIn.f EXCEPT !.trashTemp = TRUE, !.removeConverted = TRUE])
    IN /\ \A a \in unitOut.artifacts : Positions(unitOut.events, {RemovalOf(a)}) # {}
       /\ \A i \in Positions(unitOut.events, Removals) :
            \E j \in Positions(unitOut.events, {"cleanupDelay"}) : j < i
       /\ unitOut.ok = clean.ok /\ unitOut.error = clean.error /\ unitOut.data = clean.data

\* the temp file was created and its description could not be set
C13_OrphanTempFile ==
  /\ Returned("processExcelData")
  /\ unitIn.f.create = "orphan"
  /\ unitOut.artifacts = {"temp"}
  /\ Positions(unitOut.events, Removals) = {}

\* C13 for the files that processExcelData holds a handle of: the removal
\* of each is attempted after the cleanup delay whatever the outcome, and a
\* removal that fails changes neither the other removal nor the outcome.
C13_HandlesRemoved ==
  Returned("processExcelData") =>
    LET clean == DriveService_processExcelData(
                   unitIn.attachment, [unitIn.f EXCEPT !.trashTemp = TRUE, !.removeConverted = TRUE])
    IN /\ unitIn.f.create = "ok" => Positions(unitOut.events, {"trashTemp"}) # {}
       /\ (unitIn.f.create = "ok" /\ unitIn.f.convert = "ok")
            => Positions(unitOut.events, {"removeConverted"}) # {}
       /\ \A i \in Positions(unitOut.events, Removals) :
            \E j \in Positions(unitOut.events, {"cleanupDelay"}) : j < i
       /\ unitOut.events = clean.events
       /\ unitOut.ok = clean.ok /\ unitOut.error = clean.error /\ unitOut.data = clean.data

\* ------------------------------------------------------------------------
\* C14: the spreadsheet id of the tests
\* ------------------------------------------------------------------------
\* C14 as stated: Validators_validateSpreadsheetId called on a non-empty
\* string that is not a well-formed spreadsheet id, such as 'invalid',
\* throws an error instead of returning.
C14_IllFormedIdThrows ==
  (/\ Returned("validateSpreadsheetId")
   /\ ~BlankOrNotString(unitIn)
   /\ unitIn \notin SpreadsheetIdPatternMatches)
    => unitOut # NoError

\* the call of the tests has returned
C14_InvalidAccepted ==
  Returned("validateSpreadsheetId") /\ unitIn = "invalid" /\ unitOut = NoError

\* what holds of the code: the call throws MISSING_PARAMETERS exactly for
\* the ids that are falsy, not strings or blank
C14_OnlyBlankIdThrows ==
  Returned("validateSpreadsheetId") =>
    /\ (unitOut # NoError) = (unitIn \in {UNDEFINED, NULL, NUMBER, "", " "})
    /\ unitOut # NoError => unitOut.code = ERROR_CODES.MISSING_PARAMETERS

\* ------------------------------------------------------------------------
\* C15: the required fields of a config
\* ------------------------------------------------------------------------
\* undefined, null, not a string, empty or whitespace only
C15_Unusable(v) == v \in {UNDEFINED, NULL, NUMBER, "", " "}

\* C15: Validators_validateEmailConfig throws, with the code
\* MISSING_PARAMETERS, exactly when one of label, sheetName and rangeToClear
\* is undefined, null, not a string, empty or whitespace only; a
\* rangeToClear that does not match the range pattern is accepted; and
\* ErrorHandler_validateRequired throws exactly when the value of a required
\* key is undefined, null or ''.
C15_RequiredFields ==
  /\ Returned("validateEmailConfig") =>
       /\ (unitOut # NoError)
            = (\E k \in {"label", "sheetName", "rangeToClear"} : C15_Unusable(unitIn[k]))
       /\ unitOut # NoError => unitOut.code = "MISSING_PARAMETERS"
  /\ Returned("validateRequired") =>
       /\ (unitOut # NoError)
            = (\E i \in 1..Len(unitIn.required) :
                 unitIn.params[unitIn.required[i]] \in {UNDEFINED, NULL, ""})
       /\ unitOut # NoError => unitOut.code = "MISSING_PARAMETERS"

\* a config with a blank sheetName and a rangeToClear that does not match the
\* pattern was rejected for the sheetName
C15_Witness ==
  /\ Returned("validateEmailConfig")
  /\ unitIn = [label |-> "x", sheetName |-> " ", rangeToClear |-> "Nope"]
  /\ unitOut = ErrorHandler_createError(<<"Email config", ".sheetName", ": Invalid sheet name provided">>,
                                         "MISSING_PARAMETERS")

\* ------------------------------------------------------------------------
\* C16: the steps of an item
\* ------------------------------------------------------------------------
DriveEvents ==
  {"createFile", "convert", "read", "retrySleep", "cleanupDelay", "trashTemp", "removeConverted"}

WriteEvents == {"open", "clear", "write", "note"}

\* the step of the item that an event belongs to: 1 validate, 2 fetch,
\* 3 attachment, 4 extract, 5 write
StepOf(event) ==
  CASE event = "validate" -> 1
    [] event = "fetch" -> 2
    [] event = "attachment" -> 3
    [] event \in DriveEvents -> 4
    [] event \in WriteEvents -> 5

\* the last step of an item that ended at a stage
LastStep(stage) ==
  CASE stage = "validate" -> 1
    [] stage = "fetch" -> 2
    [] stage = "attachment" -> 3
    [] stage = "extract" -> 4
    [] stage \in {"update", "done"} -> 5

\* C16: in processAllConfigs every config that was started has ended with
\* one entry, success or failure, before the next one starts; its steps
\* were started in the order validate, fetch, attachment, extract, write
\* with none skipped; the last step started is the one that threw, or the
\* write when none threw; and no call of the destination writer was made for
\* an item whose validation, fetch, attachment lookup or extraction threw.
C16_StepsInOrder ==
  op = "processAllConfigs" =>
    /\ Len(trace) = idx
    /\ Len(results) = idx
    /\ \A i \in 1..Len(trace) :
         LET events == trace[i].events
             stage == trace[i].stage
         IN /\ events # <<>>
            /\ StepOf(events[1]) = 1
            /\ \A k \in 1..(Len(events) - 1) :
                 /\ StepOf(events[k]) <= StepOf(events[k + 1])
                 /\ StepOf(events[k + 1]) <= StepOf(events[k]) + 1
            /\ StepOf(events[Len(events)]) = LastStep(stage)
            /\ results[i].success = (stage = "done")
            /\ stage \in {"validate", "fetch", "attachment", "extract"}
                 => Positions(events, WriteEvents) = {}

\* the first config failed in the extraction, the second one went through
\* the five steps and succeeded
C16_Witness ==
  /\ op = "processAllConfigs"
  /\ pc = "returned"
  /\ Len(trace) = 2
  /\ trace[1].stage = "extract"
  /\ trace[2].stage = "done"
  /\ Positions(trace[2].events, {"write"}) # {}

\* ------------------------------------------------------------------------
\* C17: the pause between the items
\* ------------------------------------------------------------------------
\* C17: when processAllConfigs has been through i of its n >= 1 configs, it
\* has paused once after each of them except the last of the n, whatever
\* their outcomes: i times while i < n, and n - 1 times when it returns.
C17_PauseBetweenItems ==
  (op = "processAllConfigs" /\ pc \in {"loop", "returned"}) =>
    /\ Len(cfgs) >= 1
    /\ pauses = IF idx < Len(cfgs) THEN idx ELSE Len(cfgs) - 1
    /\ pc = "returned" => pauses = Len(cfgs) - 1

\* two configs, the first failed and the second succeeded: one pause
C17_Witness ==
  /\ op = "processAllConfigs"
  /\ pc = "returned"
  /\ Len(cfgs) = 2
  /\ ~results[1].success
  /\ results[2].success
  /\ pauses = 1

\* ------------------------------------------------------------------------
\* C18, C19: what is retried
\* ------------------------------------------------------------------------
\* the number of events of a kind in a sequence of events
Count(events, kind) == Cardinality(Positions(events, {kind}))

\* C18: for every item of a batch the fetch, the attachment lookup and each
\* call of the destination writer (open, clear, write, note) are started at
\* most once, so that an item that failed in one of them failed on its first
\* attempt; the converted spreadsheet is read until a read succeeds, at most
\* maxRetries times, with a sleep between two reads, and the extraction
\* fails on the reads only after maxRetries of them.
C18_OnlyReadRetried ==
  op = "processAllConfigs" =>
    \A i \in 1..Len(trace) :
      LET events == trace[i].events
          stage == trace[i].stage
          reads == Count(events, "read")
      IN /\ \A e \in {"validate", "fetch", "attachment"} \cup WriteEvents : Count(events, e) <= 1
         /\ stage \in {"fetch", "attachment", "update"} => ~results[i].success
         /\ reads <= MaxRetries
         /\ reads > 0 =>
              /\ reads = IF faultsUsed[i].drive.failedReads < MaxRetries
                         THEN faultsUsed[i].drive.failedReads + 1 ELSE MaxRetries
              /\ Count(events, "retrySleep") = reads - 1
         /\ (stage = "extract" /\ reads > 0) => reads = MaxRetries

\* the first read of the converted spreadsheet failed, the second one
\* succeeded and the item was written
C18_Witness ==
  /\ op = "processAllConfigs"
  /\ Len(trace) >= 1
  /\ trace[1].stage = "done"
  /\ results[1].success
  /\ Count(trace[1].events, "read") = 2
  /\ Count(trace[1].events, "write") = 1

C20_UsedRows(sheet) ==
  {r \in 1..Len(sheet) : \E c \in 1..Len(sheet[r]) : sheet[r][c] # ""}

C20_UsedColumns(sheet) ==
  {c \in 1..MaxCols + 1 : \E r \in 1..Len(sheet) : c <= Len(sheet[r]) /\ sheet[r][c] # ""}

\* C20: DriveService__extractDataFromSheet returns the rows of the first
\* sheet from the second one to the last one that holds a value, in their
\* order and with their cells, and no row of another sheet; it returns the
\* empty list, and does not throw, when the first sheet has no row or one.
C20_HeaderDropped ==
  Returned("extractDataFromSheet") =>
    LET sheet == unitIn[1]
        rows == C20_UsedRows(sheet)
        columns == C20_UsedColumns(sheet)
    IN /\ \A r \in rows : r >= 2 => r - 1 <= Len(unitOut)
       /\ \A i \in 1..Len(unitOut) :
            /\ \E r \in rows : r >= i + 1
            /\ \A c \in columns : c <= Len(unitOut[i])
            /\ \A c \in 1..Len(unitOut[i]) : unitOut[i][c] = sheet[i + 1][c]
       /\ Len(sheet) <= 1 => unitOut = <<>>

\* a workbook of two sheets, the first of a header and two rows of data
C20_Witness ==
  /\ Returned("extractDataFromSheet")
  /\ Len(unitIn) = 2
  /\ unitIn[1] = <<<<"a", "a">>, <<"a", "">>, <<"", "a">>>>
  /\ unitOut = <<<<"a", "">>, <<"", "a">>>>

\* the empty sheet and the sheet of one row
C20_NoDataWitness ==
  /\ Returned("extractDataFromSheet")
  /\ Len(unitIn[1]) = 1
  /\ unitOut = <<>>

\* ------------------------------------------------------------------------
\* C21: the latest email of a label
\* ------------------------------------------------------------------------
\* C21: EmailService_getLatestEmailByLabel called with the name of a label
\* throws LABEL_NOT_FOUND when the label does not exist and EMAIL_NOT_FOUND
\* when it has no thread; otherwise it returns the last message of the
\* first thread that the label returns, whatever the dates of the messages
\* of the other threads.
C21_LatestEmail ==
  (Returned("getLatestEmailByLabel") /\ unitIn.labelName \notin {"", UNDEFINED}) =>
    LET mailbox == unitIn.mailbox
        labelName == unitIn.labelName
    IN /\ labelName \notin DOMAIN mailbox => unitOut.error.code = "LABEL_NOT_FOUND"
       /\ (labelName \in DOMAIN mailbox /\ Len(mailbox[labelName]) = 0)
            => unitOut.error.code = "EMAIL_NOT_FOUND"
       /\ (labelName \in DOMAIN mailbox /\ Len(mailbox[labelName]) > 0) =>
            /\ unitOut.error = NoError
            /\ unitOut.message = mailbox[labelName][1][Len(mailbox[labelName][1])]

\* the last message of the first thread was returned although the second
\* thread holds a newer message
C21_Witness ==
  /\ Returned("getLatestEmailByLabel")
  /\ unitIn.labelName = "L"
  /\ Len(unitIn.mailbox["L"]) = 2
  /\ Len(unitIn.mailbox["L"][1]) = 2
  /\ unitIn.mailbox["L"][1][1].date # unitIn.mailbox["L"][1][2].date
  /\ unitOut.error = NoError
  /\ unitOut.message = unitIn.mailbox["L"][1][2]
  /\ \E k \in 1..Len(unitIn.mailbox["L"][2]) :
       unitIn.mailbox["L"][2][k].date > unitOut.message.date

\* ------------------------------------------------------------------------
\* C22: the body of the target sheet after a push
\* ------------------------------------------------------------------------
\* C22: after a DataPusher__pushToTarget that returned normally, whatever
\* the target sheet held before, every cell of the rows from 2 downward
\* holds the pushed value when it lies in the block of data.length rows by
\* data[0].length columns written at A2 and is empty otherwise; the body was
\* cleared exactly when the last row of the sheet was greater than 1.
C22_BodyIsPushedData ==
  (Returned("pushToTarget") /\ unitOut.error = NoError) =>
    LET after == unitOut.world[<<"T1", "R1">>]
        data == unitIn.data
    IN /\ \A rc \in Cells :
            rc[1] >= 2 =>
              after.cells[rc]
                = (IF rc[1] - 1 <= Len(data) /\ rc[2] <= Len(data[1])
                   THEN data[rc[1] - 1][rc[2]] ELSE "")
       /\ (Positions(unitOut.effects, {"clear"}) # {})
            = (\E rc \in Cells : rc[1] > 1 /\ unitIn.sheet.cells[rc] # "")

\* one row of one column was pushed to a sheet whose body was full
C22_Witness ==
  /\ Returned("pushToTarget")
  /\ unitOut.error = NoError
  /\ Len(unitIn.data) = 1
  /\ Len(unitIn.data[1]) = 1
  /\ \A rc \in Cells : rc[1] >= 2 => unitIn.sheet.cells[rc] = "old"
  /\ unitOut.world[<<"T1", "R1">>].cells[<<GridRows, MaxCols>>] = ""

\* ------------------------------------------------------------------------
\* C23: validateDataArray fails exactly when data is not an array or one of
\* its elements is not an array, so it passes an empty array and an array
\* whose rows differ in length; updateSheet does not reject such a ragged
\* array at validation: it opens the sheet, clears the range and starts the
\* write of a block of data.length rows by data[0].length columns.

C23_NotAnArrayOfArrays(data) ==
  \/ ~data.isArray
  \/ \E i \in 1..Len(data.rows) : data.rows[i].kind # "array"

C23_RaggedNotRejected ==
  /\ Returned("validateDataArray") =>
        ((unitOut # NoError) <=> C23_NotAnArrayOfArrays(unitIn))
  /\ Returned("updateSheet") /\ ~Rectangular(unitIn.data) =>
        /\ unitOut.attempts = <<"open", "clear", "write">>
        /\ unitOut.error.code # ERROR_CODES.MISSING_PARAMETERS

\* a ragged array went through updateSheet and the write was started
C23_Witness ==
  /\ Returned("updateSheet")
  /\ ~Rectangular(unitIn.data)
  /\ Len(unitIn.data[1]) > 0
  /\ unitOut.attempts = <<"open", "clear", "write">>

\* a ragged array of arrays went through validateDataArray
C23_ValidatorWitness ==
  /\ Returned("validateDataArray")
  /\ unitIn.isArray
  /\ \E i \in 1..Len(unitIn.rows) : unitIn.rows[i].length # unitIn.rows[1].length
  /\ ~C23_NotAnArrayOfArrays(unitIn)
  /\ unitOut = NoError

\* ------------------------------------------------------------------------
\* C24: EmailProcessor_dryRun returns one entry per config; a config that
\* passes the structure check and whose label exists but holds no email
\* gets hasEmails = WARN and a warning, and its entry stays valid; the
\* overall valid flag is false exactly when some config fails the structure
\* check or names a label that does not exist.

C24_Fails(config) ==
  \/ Validators_validateEmailConfig(config, <<"dryRun">>) # NoError
  \/ config.label \notin DOMAIN gmail

C24_NoEmails(config) ==
  /\ ~C24_Fails(config)
  /\ \A t \in 1..Len(gmail[config.label]) : gmail[config.label][t] = <<>>

C24_DryRunEmptyLabelWarns ==
  (op = "dryRun" /\ pc = "returned") =>
    /\ Len(status.configurations) = Len(cfgs)
    /\ status.valid = (\A i \in 1..Len(cfgs) : ~C24_Fails(cfgs[i]))
    /\ \A i \in 1..Len(cfgs) :
         C24_NoEmails(cfgs[i]) =>
           /\ status.configurations[i].valid
           /\ status.configurations[i].checks.hasEmails = "WARN"
           /\ "error" \notin DOMAIN status.configurations[i]
           /\ \E w \in 1..Len(status.warnings) :
                status.warnings[w] = <<"No emails found for label: ", cfgs[i].label>>

\* a dry run whose only shortcoming is a label without emails
C24_Witness ==
  /\ op = "dryRun"
  /\ pc = "returned"
  /\ \E i \in 1..Len(cfgs) : C24_NoEmails(cfgs[i])
  /\ status.valid
  /\ status.warnings # <<>>

\* a dry run made invalid by a label that does not exist
C24_InvalidWitness ==
  /\ op = "dryRun"
  /\ pc = "returned"
  /\ \E i \in 1..Len(cfgs) : C24_NoEmails(cfgs[i])
  /\ \E i \in 1..Len(cfgs) : cfgs[i].label = "Ghost"
  /\ ~status.valid

\* ------------------------------------------------------------------------
\* C25: every call of processAllConfigs terminates: it eventually throws
\* the error of the pre-flight validation, before any config was processed,
\* or returns results that hold one entry, success true or false, for
\* every config.

C25_PreflightError ==
  /\ pc = "thrown"
  /\ thrown # NoError
  /\ results = <<>>
  /\ trace = <<>>

C25_AllItemsSettled ==
  /\ pc = "returned"
  /\ Len(results) = Len(cfgs)
  /\ \A i \in 1..Len(results) : results[i].success \in BOOLEAN

C25_BatchTerminates ==
  (op = "processAllConfigs") ~> (C25_PreflightError \/ C25_AllItemsSettled)

\* a call that processed MaxConfigs configs, one with success and one
\* without, and returned
C25_Witness ==
  /\ op = "processAllConfigs"
  /\ C25_AllItemsSettled
  /\ Len(cfgs) = MaxConfigs
  /\ \E i \in 1..Len(results) : results[i].success
  /\ \E i \in 1..Len(results) : ~results[i].success

\* a call ended by the pre-flight validation
C25_PreflightWitness ==
  /\ op = "processAllConfigs"
  /\ C25_PreflightError

\* ------------------------------------------------------------------------
\* C26: withRetry sleeps only between two attempts and always for the delay
\* it was given: its log is call, sleep, call, ..., call, so there are k - 1
\* sleeps when call k is the first to succeed and maxAttempts - 1 when all
\* maxAttempts calls fail, none before the first call and none after the
\* last one.

C26_Alternates(log) ==
  \A i \in 1..Len(log) :
    IF i % 2 = 1 THEN log[i] = CallEvent
    ELSE log[i] = [kind |-> "sleep", ms |-> "delay"]

C26_SleepsBetweenAttempts ==
  (rpc = "done" /\ rMax >= 1) =>
    /\ C26_Alternates(rResult.log)
    /\ rResult.log[1].kind = "call"
    /\ rResult.log[Len(rResult.log)].kind = "call"
    /\ Len(rResult.log) = 2 * rResult.calls - 1
    /\ rResult.sleeps = IF SuccessfulCalls # {} THEN FirstSuccess - 1 ELSE rMax - 1

\* every call failed and the operation was called MaxAttempts times
C26_Witness ==
  /\ rpc = "done"
  /\ rMax = MaxAttempts
  /\ SuccessfulCalls = {}
  /\ rResult.sleeps = MaxAttempts - 1

\* the last call allowed succeeded
C26_SuccessWitness ==
  /\ rpc = "done"
  /\ rMax = MaxAttempts
  /\ SuccessfulCalls = {MaxAttempts}
  /\ rResult.sleeps = MaxAttempts - 1
  /\ rResult.ok

\* ------------------------------------------------------------------------
\* C27 as stated: for every maxAttempts >= 0, maxAttempts = 0 included,
\* withRetry either returns the value of a call of the operation that
\* succeeded, or fails with the composite error made of the context, the
\* attempt count and the message of the last error; it never fails with
\* another error.

C27_CompositePrefix == RetryContext \o <<" failed after ", NumStr(rMax), " attempts. Last error: ">>

C27_IsComposite(error) ==
  /\ error # TypeError
  /\ error.code = PlainError(<<>>).code
  /\ Len(error.message) >= Len(C27_CompositePrefix)
  /\ SubSeq(error.message, 1, Len(C27_CompositePrefix)) = C27_CompositePrefix

C27_TwoOutcomes ==
  rpc = "done" =>
    \/ /\ rResult.ok
       /\ \E k \in 1..rMax : rOutcomes[k].ok /\ rResult.value = rOutcomes[k].value
    \/ /\ ~rResult.ok
       /\ C27_IsComposite(rResult.error)

\* what holds of the code: with maxAttempts = 0 the operation is not called
\* and the call fails with the TypeError of lastError.message, lastError
\* being undefined; with maxAttempts >= 1 the two outcomes are the only ones
C27_ZeroAttemptsTypeError ==
  rpc = "done" =>
    IF rMax = 0
    THEN ~rResult.ok /\ rResult.error = TypeError /\ rResult.calls = 0 /\ rResult.log = <<>>
    ELSE C27_TwoOutcomes

\* a call with maxAttempts = 0 has ended
C27_ZeroAttemptsWitness == rpc = "done" /\ rMax = 0 /\ rResult.error = TypeError

\* ------------------------------------------------------------------------
\* C28: the write of updateSheet is not atomic. When an item of the batch
\* has its range cleared and the insert that follows fails, the item fails
\* with a GENERAL_ERROR, the cells of rangeToClear are left empty and the
\* other cells as they were, the note is not set, and the batch records the
\* item with success false.

\* the step is an iteration of the loop in which the clear was done and the
\* insert was started, the spreadsheet service failing on the write
C28_InsertFailedStep ==
  /\ LoopCondition
  /\ idx' = idx + 1
  /\ faultsUsed'[idx'].update = "insert"
  /\ Count(trace'[idx'].events, "clear") = 1
  /\ Count(trace'[idx'].events, "write") = 1

C28_ClearedNotWritten(before, after, rangeToClear) ==
  /\ \A rc \in Cells :
       after.cells[rc] = IF InRect(rc, A1Rect(rangeToClear)) THEN "" ELSE before.cells[rc]
  /\ after.note = before.note

C28_Step ==
  C28_InsertFailedStep =>
    /\ trace'[idx'].stage = "update"
    /\ trace'[idx'].code = ERROR_CODES.GENERAL_ERROR
    /\ Count(trace'[idx'].events, "note") = 0
    /\ Len(results') = idx'
    /\ ~results'[idx'].success
    /\ C28_ClearedNotWritten(sheets[<<MAIN, cfgs[idx'].sheetName>>],
                             sheets'[<<MAIN, cfgs[idx'].sheetName>>], cfgs[idx'].rangeToClear)
    /\ \A k \in DOMAIN sheets : k # <<MAIN, cfgs[idx'].sheetName>> => sheets'[k] = sheets[k]

C28_WriteNotAtomic == [][C28_Step]_vars

\* the first item had its range cleared and its insert failed: the old
\* content is gone and the item is recorded as failed
C28_Witness ==
  /\ Processing
  /\ Len(trace) >= 1
  /\ faultsUsed[1].update = "insert"
  /\ trace[1].stage = "update"
  /\ trace[1].code = ERROR_CODES.GENERAL_ERROR
  /\ ~results[1].success
  /\ World0[<<MAIN, cfgs[1].sheetName>>].cells[<<2, 1>>] = "old"
  /\ sheets[<<MAIN, cfgs[1].sheetName>>].cells[<<2, 1>>] = ""
  /\ sheets[<<MAIN, cfgs[1].sheetName>>].note = ""

\* ------------------------------------------------------------------------
\* C29: updateSheet changes nothing outside its footprint. After a call
\* that returned normally, every cell outside rangeToClear and outside the
\* written block (rows 2..data.length + 1, columns 1..data[0].length) holds
\* the content it had before the call, and every cell inside rangeToClear
\* but outside the written block is empty.

C29_InRange(rc) == InRect(rc, A1Rect(uArgs.rangeToClear))

C29_InBlock(rc) ==
  /\ Len(uArgs.data) > 0
  /\ rc[1] \in 2..(Len(uArgs.data) + 1)
  /\ rc[2] \in 1..Len(uArgs.data[1])

C29_OnlyFootprintChanged ==
  (spc = "written" /\ uArgs.sheetName = "S1" /\ uFirst.ok) =>
    \A rc \in Cells :
      /\ (~C29_InRange(rc) /\ ~C29_InBlock(rc)) => TheSheet.cells[rc] = TheSheetBefore.cells[rc]
      /\ (C29_InRange(rc) /\ ~C29_InBlock(rc)) => TheSheet.cells[rc] = ""
      /\ C29_InBlock(rc) => TheSheet.cells[rc] = uArgs.data[rc[1] - 1][rc[2]]

\* one cell was written into column A with the range A2:A: the old content
\* of column B is still there and the rest of column A is empty
C29_Witness ==
  /\ spc = "written"
  /\ uFirst.ok
  /\ uArgs.rangeToClear = "A2:A"
  /\ uArgs.data = <<<<"a">>>>
  /\ TheSheetBefore.cells[<<2, 2>>] = "old"
  /\ TheSheet.cells[<<2, 2>>] = "old"
  /\ TheSheetBefore.cells[<<GridRows, 1>>] = "old"
  /\ TheSheet.cells[<<GridRows, 1>>] = ""

\* the block written is wider than the range cleared
C29_WiderWitness ==
  /\ spc = "written"
  /\ uFirst.ok
  /\ uArgs.rangeToClear = "B2:B"
  /\ Len(uArgs.data) = 1
  /\ Len(uArgs.data[1]) = MaxCols
  /\ TheSheetBefore.cells[<<GridRows, 1>>] = "old"
  /\ TheSheet.cells[<<GridRows, 1>>] = "old"

\* ------------------------------------------------------------------------
\* C30: the result of a source sheet and the dialog of the menu
\* ------------------------------------------------------------------------
\* pushDataToSheets, the menu item: the dialog shown after pushAllData()
\* returned results; failed counts the entries whose success is false
pushDataToSheets(pushResults) ==
  IF Len(SelectSeq(pushResults, LAMBDA r : ~r.success)) = 0
  THEN "showSuccessDialog"
  ELSE "showErrorDialog"

C30_PushReturned == op = "pushAllData" /\ pc = "returned"

\* the entries of the targets of source sheet i that record a failed push
C30_FailedTargets(i) ==
  IF ~results[i].success THEN {}
  ELSE {t \in 1..Len(results[i].result.targetResults) :
          ~results[i].result.targetResults[t].success}

\* C30 as stated: in DataPusher_pushAllData the result of a source sheet
\* has success true only if the data was pushed successfully to every one
\* of its targets, so the menu shows its success dialog only when no push
\* to a target failed.
C30_SuccessMeansAllTargets ==
  C30_PushReturned =>
    /\ \A i \in 1..Len(results) : results[i].success => C30_FailedTargets(i) = {}
    /\ pushDataToSheets(results) = "showSuccessDialog"
         => \A i \in 1..Len(results) : C30_FailedTargets(i) = {}

\* the menu shows the success dialog although the push to a target failed
C30_SuccessDialogAfterFailure ==
  /\ C30_PushReturned
  /\ pushDataToSheets(results) = "showSuccessDialog"
  /\ \E i \in 1..Len(results) : C30_FailedTargets(i) # {}

\* what holds of the code: the entry of a source sheet has success false
\* exactly when pushSingleSheet threw, that is when its config is rejected
\* or its source range cannot be read; the failures of the targets are
\* recorded in targetResults only, one entry per target
C30_SuccessMeansSourceRead ==
  C30_PushReturned =>
    \A i \in 1..Len(results) :
      /\ results[i].success =
           /\ Validators_validatePushDataConfig(pushCfgs[i], <<"Single sheet push">>) = NoError
           /\ SheetService_readSheetData(sheets0, MAIN, pushCfgs[i].sheetName, pushCfgs[i].range,
                                         <<"Single sheet push">>).ok
      /\ results[i].success =>
           Len(results[i].result.targetResults) = Len(pushCfgs[i].targets)

====
